---- MODULE Spec2Model ----
(***************************************************************************)
(* Model of the device connectivity, upload and rotation subsystem of      *)
(* pixoo-manager:                                                          *)
(*   app/services/pixoo_connection.py   PixooConnection                    *)
(*   app/services/pixoo_upload.py       upload_gif                         *)
(*   app/services/rotation_manager.py   RotationManager                    *)
(*   app/services/file_utils.py         FileTracker, cleanup_files         *)
(***************************************************************************)
EXTENDS Integers, Sequences, FiniteSets, TLC

(***************************************************************************)
(* Bounds of the model                                                     *)
(***************************************************************************)
\* largest max_retries argument passed to send_command (its default is 3)
MaxRetriesArg == 3
\* the clock of the FileTracker model runs from 0 to MaxTime
MaxTime == 3
\* largest reference count a path is driven to
MaxRefs == 2
\* number of asyncio tasks of _rotation_loop that are unfinished at one time
MaxTasks == 2
\* largest number of frames of a GIF whose durations are drawn
MaxDurations == 2

\* the threads of the process: the asyncio event loop thread, which runs the
\* request handlers and the rotation task, and a worker thread that runs what
\* the handlers hand to asyncio.to_thread
Callers == {"loop", "worker"}
IPs == {"ip1", "ip2"}
NoIp == "none"
\* LAST_CONNECTION_FILE opened for writing and not yet written to the end:
\* empty or cut short, not a JSON document
TornFile == "torn"
NoSession == 0
\* identities for the requests.Session objects alive at one time: the one in
\* self._session and one local to each thread
SessionIds == 1..(Cardinality(Callers) + 1)

VARIABLES
    \* PixooConnection fields
    connected,      \* self._connected
    ip,             \* self._ip
    session,        \* self._session (NoSession = None)
    sessOpen,       \* the Session objects in use on which close() was not called
    state_lock,     \* the thread inside `with self._state_lock` (NoCaller)
    lastIpFile,     \* content of LAST_CONNECTION_FILE (NoIp = no file)
    \* one record per caller of connect / disconnect / send_command
    cpc,            \* position of the caller in the method it runs
    cip,            \* local `ip`
    csess,          \* local `session`
    maxRetries,     \* argument max_retries
    attempt,        \* loop variable `attempt`
    posts,          \* number of session.post requests this call has issued
    isConnErr,      \* local `is_connection_error`
    seen,           \* failure classes of the attempts so far (the logged warnings)
    cret            \* what the last call returned or raised

\* the fields guarded by self._state_lock, and the closed sessions
connState == <<connected, ip, session, sessOpen>>

connVars == <<connected, ip, session, sessOpen, state_lock, lastIpFile,
              cpc, cip, csess, maxRetries, attempt, posts, isConnErr, seen,
              cret>>

VARIABLES
    \* FileTracker fields, the clock and the temporary directory
    refs,           \* self._refs: reference count of each tracked path
    timestamps,     \* self._timestamps: time of the last acquire
    now,            \* time()
    onDisk,         \* the paths that exist in TEMP_DIR
    lastTouch,      \* history: time of the last acquire of a path, ever
    clpc,           \* position of the thread running cleanup_files([path])
    clpath          \* the path that cleanup_files is looking at

ftVars == <<refs, timestamps, now, onDisk, lastTouch, clpc, clpath>>

VARIABLES
    \* RotationManager fields
    is_active,          \* self._is_active
    is_paused,          \* self._is_paused
    selected_ids,       \* self._selected_ids
    interval_seconds,   \* self._interval_seconds
    current_index,      \* self._current_index (0-based)
    shuffled_order,     \* self._shuffled_order
    attempted,          \* history: the ids whose upload the loop attempted
                        \* since the order was last shuffled, in order
    rotation_task,      \* self._rotation_task (NoTask = None)
    \* the asyncio tasks created for _rotation_loop
    taskPos,            \* where each task is suspended; "none": no such task
    taskCancel,         \* Task.cancel() was called on a task not yet done
    taskFailures,       \* local consecutive_failures of each task
    running,            \* the task that holds the event loop mid-iteration
    \* collaborators and persisted state
    configFile,         \* content of ROTATION_CONFIG_FILE
    galleryItems,       \* ids for which gallery.get_item is not None
    diskOk,             \* writes and unlinks in USER_DATA_DIR succeed
    rret                \* what the last RotationManager call returned

rotVars == <<is_active, is_paused, selected_ids, interval_seconds,
             current_index, shuffled_order, attempted, rotation_task, taskPos,
             taskCancel, taskFailures, running, configFile,
             galleryItems, diskOk, rret>>

VARIABLES
    \* upload_gif, per calling thread, and the device
    upc,            \* position of the thread inside upload_gif
    utotal,         \* local total_frames
    uoffset,        \* local offset: index of the next frame to send
    ures,           \* what the last upload_gif call returned or raised
    ulog,           \* history: what the call did, in order: the commands it
                    \* handed to send_command and its progress callbacks
    devLast         \* the thread whose command the device received last

upVars == <<upc, utotal, uoffset, ures, ulog, devLast>>

VARIABLES
    \* discover(), per calling thread
    dpc,            \* position of the thread inside discover
    dlast,          \* local last_ip (NoIp = None)
    ddevices,       \* local `devices`
    dcalls,         \* history: the discovery mechanisms the call invoked, in
                    \* order, each with what it produced
    dret            \* what the last discover call returned

discVars == <<dpc, dlast, ddevices, dcalls, dret>>

VARIABLES
    \* _save_config / _atomic_json_write, run by the event loop thread
    wpc,            \* position of the thread inside _atomic_json_write
    wdata,          \* local `data`: the document being written
    tempFile,       \* content of the mkstemp file beside ROTATION_CONFIG_FILE
    wret            \* what the last _save_config returned or raised

saveVars == <<wpc, wdata, tempFile, wret>>

VARIABLES
    \* the playback speed inside upload_gif
    durations,      \* local `durations`, as load_gif_frames returned them
    speedArg,       \* history: the `speed` argument of the call
    speed,          \* local `speed`: the argument, then the value in use
    speed_ms        \* "speed_ms" of the returned dict

speedVars == <<durations, speedArg, speed, speed_ms>>

VARIABLES
    \* UploadManager
    _entries,       \* self._entries: upload id -> UploadEntry
    umret           \* the last call on the manager and what it returned

umVars == <<_entries, umret>>

vars ==
    <<connVars, ftVars, rotVars, upVars, discVars, saveVars, speedVars,
      umVars>>

\* what the methods of PixooConnection leave alone
nonConnVars ==
    <<ftVars, rotVars, upVars, discVars, saveVars, speedVars, umVars>>

\* what FileTracker and cleanup_files leave alone
nonFtVars ==
    <<connVars, rotVars, upVars, discVars, saveVars, speedVars, umVars>>

\* what the RotationManager and the gallery leave alone
nonRotVars ==
    <<connVars, ftVars, upVars, discVars, saveVars, speedVars, umVars>>

(***************************************************************************)
(* PixooConnection: pure reads of the guarded state                        *)
(***************************************************************************)
is_connected == connected

current_ip == IF connected THEN ip ELSE NoIp

get_status == [connected |-> connected, ip |-> IF connected THEN ip ELSE NoIp]

ConnInit ==
    /\ connected = FALSE
    /\ ip = NoIp
    /\ session = NoSession
    /\ sessOpen = {}
    /\ state_lock = "none"
    /\ lastIpFile = NoIp
    /\ cpc = [t \in Callers |-> "idle"]
    /\ cip = [t \in Callers |-> NoIp]
    /\ csess = [t \in Callers |-> NoSession]
    /\ maxRetries = [t \in Callers |-> 0]
    /\ attempt = [t \in Callers |-> 0]
    /\ posts = [t \in Callers |-> 0]
    /\ isConnErr = [t \in Callers |-> FALSE]
    /\ seen = [t \in Callers |-> {}]
    /\ cret = [t \in Callers |-> "none"]

\* thread t can enter a method: it runs none, and the event loop thread is not
\* in the middle of an iteration of the rotation task
ThreadFree(t) ==
    /\ cpc[t] = "idle"
    /\ upc[t] = "idle"
    /\ dpc[t] = "idle"
    /\ t = "loop" => running = 0 /\ wpc = "idle"

\* session.close() on the Session object s
CloseSession(s) == sessOpen \ {s}

\* requests.Session(): an identity that nothing refers to any more
NewSession ==
    CHOOSE s \in SessionIds :
        /\ s # session /\ \A t \in Callers : csess[t] # s
        /\ \A r \in 1..(s - 1) : r = session \/ \E t \in Callers : csess[t] = r

\* the method run by caller t returns or raises `r`: its locals vanish
Return(t, r) ==
    /\ cpc' = [cpc EXCEPT ![t] = "idle"]
    /\ cret' = [cret EXCEPT ![t] = r]
    /\ cip' = [cip EXCEPT ![t] = NoIp]
    /\ csess' = [csess EXCEPT ![t] = NoSession]
    /\ maxRetries' = [maxRetries EXCEPT ![t] = 0]
    /\ attempt' = [attempt EXCEPT ![t] = 0]
    /\ posts' = [posts EXCEPT ![t] = 0]
    /\ isConnErr' = [isConnErr EXCEPT ![t] = FALSE]
    /\ seen' = [seen EXCEPT ![t] = {}]

(***************************************************************************)
(* self._state_lock                                                        *)
(***************************************************************************)
\* no thread is inside a `with self._state_lock` block
LockFree == state_lock = "none"

\* `with self._state_lock:` entered by thread t, which waits while another
\* thread is inside such a block
LockAcquire(t) ==
    /\ LockFree
    /\ state_lock' = t

\* the end of the `with` block of thread t
LockRelease(t) ==
    /\ state_lock = t
    /\ state_lock' = "none"

(***************************************************************************)
(* is_connected, current_ip, get_status                                    *)
(***************************************************************************)
\* the three reads enter the lock alike
ReadLock(t) ==
    /\ ThreadFree(t)
    /\ UNCHANGED nonConnVars
    /\ LockAcquire(t)
    /\ cpc' = [cpc EXCEPT ![t] = "read_locked"]
    /\ cret' = [cret EXCEPT ![t] = "none"]
    /\ UNCHANGED <<connState, lastIpFile, cip, csess, maxRetries, attempt,
                   posts, isConnErr, seen>>

\* the body of the read: the value of current_ip is what the caller gets
ReadStatus(t) ==
    /\ cpc[t] = "read_locked"
    /\ UNCHANGED nonConnVars
    /\ LockRelease(t)
    /\ Return(t, current_ip)
    /\ UNCHANGED <<connState, lastIpFile>>

(***************************************************************************)
(* connect(ip)                                                             *)
(***************************************************************************)
\* session = requests.Session(); session.post(...) is issued
ConnectBegin(t, newIp) ==
    /\ ThreadFree(t)
    /\ UNCHANGED nonConnVars
    /\ csess' = [csess EXCEPT ![t] = NewSession]
    /\ sessOpen' = sessOpen \cup {NewSession}
    /\ cip' = [cip EXCEPT ![t] = newIp]
    /\ cpc' = [cpc EXCEPT ![t] = "connect_post"]
    /\ cret' = [cret EXCEPT ![t] = "none"]
    /\ UNCHANGED <<connected, ip, session, state_lock, lastIpFile,
                   maxRetries, attempt, posts, isConnErr, seen>>

\* the handshake answered 200 with error_code 0: the lock is entered
ConnectLock(t) ==
    /\ cpc[t] = "connect_post"
    /\ UNCHANGED nonConnVars
    /\ LockAcquire(t)
    /\ cpc' = [cpc EXCEPT ![t] = "connect_locked"]
    /\ UNCHANGED <<connState, lastIpFile, cip, csess, maxRetries, attempt,
                   posts, isConnErr, seen, cret>>

\* the state is set under the lock
ConnectOk(t) ==
    /\ cpc[t] = "connect_locked"
    /\ UNCHANGED nonConnVars
    /\ sessOpen' = CloseSession(session)
    /\ session' = csess[t]
    /\ ip' = cip[t]
    /\ connected' = TRUE
    /\ LockRelease(t)
    /\ cpc' = [cpc EXCEPT ![t] = "connect_save"]
    /\ UNCHANGED <<lastIpFile, cip, csess, maxRetries, attempt, posts,
                   isConnErr, seen, cret>>

\* ConnectRejected that closes the stored session instead of its own
ConnectRejected_ClosesStored(t) ==
    /\ cpc[t] = "connect_post"
    /\ UNCHANGED nonConnVars
    /\ sessOpen' = CloseSession(session)
    /\ Return(t, "PixooConnectionError")
    /\ UNCHANGED <<connected, ip, session, state_lock, lastIpFile>>

\* the handshake answered, but not with 200 / error_code 0
ConnectRejected(t) ==
    /\ cpc[t] = "connect_post"
    /\ UNCHANGED nonConnVars
    /\ sessOpen' = CloseSession(csess[t])
    /\ Return(t, "PixooConnectionError")
    /\ UNCHANGED <<connected, ip, session, state_lock, lastIpFile>>

\* the handshake raised Timeout, ConnectionError or another exception; the
\* local Session object is dropped with the frame
ConnectFailed(t) ==
    /\ cpc[t] = "connect_post"
    /\ UNCHANGED nonConnVars
    /\ sessOpen' = sessOpen \ {csess[t]}
    /\ Return(t, "PixooConnectionError")
    /\ UNCHANGED <<connected, ip, session, state_lock, lastIpFile>>

\* _save_last_ip(ip), outside the lock; a write error is logged and dropped.
\* This is SaveLastIpOpen followed by SaveLastIpWrite, taken as one step by
\* the specifications in which the process does not end in between
ConnectSave(t) ==
    /\ cpc[t] = "connect_save"
    /\ UNCHANGED nonConnVars
    /\ lastIpFile' = IF diskOk THEN cip[t] ELSE lastIpFile
    /\ Return(t, "True")
    /\ UNCHANGED <<connState, state_lock>>

(***************************************************************************)
(* disconnect()                                                            *)
(***************************************************************************)
DisconnectLock(t) ==
    /\ ThreadFree(t)
    /\ UNCHANGED nonConnVars
    /\ LockAcquire(t)
    /\ cpc' = [cpc EXCEPT ![t] = "disconnect_locked"]
    /\ cret' = [cret EXCEPT ![t] = "none"]
    /\ UNCHANGED <<connState, lastIpFile, cip, csess, maxRetries, attempt,
                   posts, isConnErr, seen>>

\* Disconnect that closes the session but forgets the connected flag
Disconnect_KeepsFlag(t) ==
    /\ cpc[t] = "disconnect_locked"
    /\ UNCHANGED nonConnVars
    /\ sessOpen' = CloseSession(session)
    /\ session' = NoSession
    /\ ip' = NoIp
    /\ UNCHANGED connected
    /\ LockRelease(t)
    /\ Return(t, "None")
    /\ UNCHANGED lastIpFile

Disconnect(t) ==
    /\ cpc[t] = "disconnect_locked"
    /\ UNCHANGED nonConnVars
    /\ sessOpen' = CloseSession(session)
    /\ session' = NoSession
    /\ ip' = NoIp
    /\ connected' = FALSE
    /\ LockRelease(t)
    /\ Return(t, "None")
    /\ UNCHANGED lastIpFile

(***************************************************************************)
(* send_command(command, max_retries)                                      *)
(***************************************************************************)
SendLock(t, mr) ==
    /\ ThreadFree(t)
    /\ UNCHANGED nonConnVars
    /\ LockAcquire(t)
    /\ maxRetries' = [maxRetries EXCEPT ![t] = mr]
    /\ cpc' = [cpc EXCEPT ![t] = "send_locked"]
    /\ cret' = [cret EXCEPT ![t] = "none"]
    /\ UNCHANGED <<connState, lastIpFile, cip, csess, attempt, posts,
                   isConnErr, seen>>

\* SendBegin that goes on to the request without leaving the lock
SendBegin_HoldsLock(t) ==
    /\ cpc[t] = "send_locked"
    /\ UNCHANGED nonConnVars
    /\ IF ~connected \/ ip = NoIp \/ session = NoSession
       THEN /\ Return(t, "NotConnected")
            /\ LockRelease(t)
       ELSE /\ cip' = [cip EXCEPT ![t] = ip]
            /\ csess' = [csess EXCEPT ![t] = session]
            /\ cpc' = [cpc EXCEPT ![t] =
                          IF maxRetries[t] > 0 THEN "send_post"
                                               ELSE "send_final"]
            /\ UNCHANGED <<state_lock, maxRetries, attempt, posts,
                           isConnErr, seen, cret>>
    /\ UNCHANGED <<connState, lastIpFile>>

\* the guarded test and copy of ip and session; the first request is issued
\* outside the lock
SendBegin(t) ==
    /\ cpc[t] = "send_locked"
    /\ UNCHANGED nonConnVars
    /\ LockRelease(t)
    /\ IF ~connected \/ ip = NoIp \/ session = NoSession
       THEN Return(t, "NotConnected")
       ELSE /\ cip' = [cip EXCEPT ![t] = ip]
            /\ csess' = [csess EXCEPT ![t] = session]
            /\ cpc' = [cpc EXCEPT ![t] =
                          IF maxRetries[t] > 0 THEN "send_post"
                                               ELSE "send_final"]
            /\ UNCHANGED <<maxRetries, attempt, posts, isConnErr, seen,
                           cret>>
    /\ UNCHANGED <<connState, lastIpFile>>

\* one session.post(...) that returned a response: the parsed body is
\* returned on status 200 whatever its error_code, else the call raises
SendAnswered(t, status200, errorCode) ==
    /\ cpc[t] = "send_post"
    /\ UNCHANGED nonConnVars
    /\ Return(t, IF status200
                 THEN (IF errorCode = 0 THEN "response_ok" ELSE "response_err")
                 ELSE "PixooConnectionError")
    /\ UNCHANGED <<connState, state_lock, lastIpFile>>

FailureClasses == {"timeout", "refused", "other"}

\* SendFailed with a timeout classified as a connection error
SendFailed_TimeoutIsConnErr(t, class) ==
    /\ cpc[t] = "send_post"
    /\ UNCHANGED nonConnVars
    /\ posts' = [posts EXCEPT ![t] = @ + 1]
    /\ seen' = [seen EXCEPT ![t] = @ \cup {class}]
    /\ isConnErr' = [isConnErr EXCEPT ![t] = (class \in {"refused", "timeout"})]
    /\ cpc' = [cpc EXCEPT ![t] = IF attempt[t] < maxRetries[t] - 1
                                  THEN "send_backoff" ELSE "send_final"]
    /\ UNCHANGED <<connState, state_lock, lastIpFile, cip, csess,
                   maxRetries, attempt, cret>>

\* one session.post(...) that raised; followed by the backoff test
SendFailed(t, class) ==
    /\ cpc[t] = "send_post"
    /\ UNCHANGED nonConnVars
    /\ posts' = [posts EXCEPT ![t] = @ + 1]
    /\ seen' = [seen EXCEPT ![t] = @ \cup {class}]
    /\ isConnErr' = [isConnErr EXCEPT ![t] = (class = "refused")]
    /\ cpc' = [cpc EXCEPT ![t] = IF attempt[t] < maxRetries[t] - 1
                                  THEN "send_backoff" ELSE "send_final"]
    /\ UNCHANGED <<connState, state_lock, lastIpFile, cip, csess,
                   maxRetries, attempt, cret>>

\* time.sleep(2 ** attempt) has elapsed; next iteration of the loop
SendBackoff(t) ==
    /\ cpc[t] = "send_backoff"
    /\ UNCHANGED nonConnVars
    /\ attempt' = [attempt EXCEPT ![t] = @ + 1]
    /\ cpc' = [cpc EXCEPT ![t] = "send_post"]
    /\ UNCHANGED <<connState, state_lock, lastIpFile, cip, csess,
                   maxRetries, posts, isConnErr, seen, cret>>

\* all attempts failed on a connection error: the lock is entered
SendFinalLock(t) ==
    /\ cpc[t] = "send_final"
    /\ isConnErr[t]
    /\ UNCHANGED nonConnVars
    /\ LockAcquire(t)
    /\ cpc' = [cpc EXCEPT ![t] = "send_teardown"]
    /\ UNCHANGED <<connState, lastIpFile, cip, csess, maxRetries, attempt,
                   posts, isConnErr, seen, cret>>

\* SendFinal that marks the connection down but leaves the session open
SendFinal_KeepsSession(t) ==
    /\ UNCHANGED nonConnVars
    /\ \/ /\ cpc[t] = "send_final"
          /\ ~isConnErr[t]
          /\ UNCHANGED <<sessOpen, session, connected, state_lock>>
       \/ /\ cpc[t] = "send_teardown"
          /\ connected' = FALSE
          /\ UNCHANGED <<sessOpen, session>>
          /\ LockRelease(t)
    /\ Return(t, "PixooConnectionError")
    /\ UNCHANGED <<ip, lastIpFile>>

\* all attempts failed: the teardown under the lock after a connection
\* error, then the raise
SendFinal(t) ==
    /\ UNCHANGED nonConnVars
    /\ \/ /\ cpc[t] = "send_final"
          /\ ~isConnErr[t]
          /\ UNCHANGED <<sessOpen, session, connected, state_lock>>
       \/ /\ cpc[t] = "send_teardown"
          /\ sessOpen' = CloseSession(session)
          /\ session' = NoSession
          /\ connected' = FALSE
          /\ LockRelease(t)
    /\ Return(t, "PixooConnectionError")
    /\ UNCHANGED <<ip, lastIpFile>>

ConnNext ==
    \E t \in Callers :
        \/ ReadLock(t)
        \/ ReadStatus(t)
        \/ \E newIp \in IPs : ConnectBegin(t, newIp)
        \/ ConnectLock(t)
        \/ ConnectOk(t)
        \/ ConnectRejected(t)
        \/ ConnectFailed(t)
        \/ ConnectSave(t)
        \/ DisconnectLock(t)
        \/ Disconnect(t)
        \/ \E mr \in 0..MaxRetriesArg : SendLock(t, mr)
        \/ SendBegin(t)
        \/ \E status200 \in BOOLEAN, errorCode \in {0, 1} :
               SendAnswered(t, status200, errorCode)
        \/ \E class \in FailureClasses : SendFailed(t, class)
        \/ SendBackoff(t)
        \/ SendFinalLock(t)
        \/ SendFinal(t)

(***************************************************************************)
(* discover(timeout)                                                       *)
(***************************************************************************)
\* lists of addresses a discovery mechanism can collect: no address twice
DeviceLists ==
    {<<>>} \cup {<<a>> : a \in IPs}
           \cup {<<a, b>> : <<a, b>> \in {q \in IPs \X IPs : q[1] # q[2]}}

\* discover has not returned
NoDevices == <<"none">>

\* the records of the history dcalls
HandshakeCall(addr, verified) == <<"_check_pixoo_ip", <<addr>>, verified>>
MdnsCall(found) == <<"mdns", found, found # <<>>>>
SweepCall(found) == <<"_scan_network", found, found # <<>>>>

DiscInit ==
    /\ dpc = [t \in Callers |-> "idle"]
    /\ dlast = [t \in Callers |-> NoIp]
    /\ ddevices = [t \in Callers |-> <<>>]
    /\ dcalls = [t \in Callers |-> <<>>]
    /\ dret = [t \in Callers |-> NoDevices]

\* _load_last_ip(): the "ip" of LAST_CONNECTION_FILE, None without the file
_load_last_ip == IF lastIpFile = TornFile THEN NoIp ELSE lastIpFile

\* discover returns `devices`: its locals vanish, the history stays
DiscoverReturn(t, devices) ==
    /\ dpc' = [dpc EXCEPT ![t] = "idle"]
    /\ dret' = [dret EXCEPT ![t] = devices]
    /\ dlast' = [dlast EXCEPT ![t] = NoIp]
    /\ ddevices' = [ddevices EXCEPT ![t] = <<>>]

\* devices = []; last_ip = _load_last_ip(); the handshake with last_ip is
\* issued when there is one
DiscoverBegin(t) ==
    /\ ThreadFree(t)
    /\ UNCHANGED <<connVars, ftVars, rotVars, upVars, saveVars, speedVars, umVars>>
    /\ dlast' = [dlast EXCEPT ![t] = _load_last_ip]
    /\ ddevices' = [ddevices EXCEPT ![t] = <<>>]
    /\ dcalls' = [dcalls EXCEPT ![t] = <<>>]
    /\ dret' = [dret EXCEPT ![t] = NoDevices]
    /\ dpc' = [dpc EXCEPT ![t] = IF _load_last_ip # NoIp
                                  THEN "check_last" ELSE "mdns"]

\* _check_pixoo_ip(last_ip, timeout=0.5) has returned `verified`
DiscoverCheckLast(t, verified) ==
    /\ dpc[t] = "check_last"
    /\ UNCHANGED <<connVars, ftVars, rotVars, upVars, saveVars, speedVars, umVars>>
    /\ dcalls' = [dcalls EXCEPT ![t] = Append(@, HandshakeCall(dlast[t], verified))]
    /\ IF verified
       THEN DiscoverReturn(t, <<dlast[t]>>)
       ELSE /\ dpc' = [dpc EXCEPT ![t] = "mdns"]
            /\ UNCHANGED <<dlast, ddevices, dret>>

\* the test that leads to the network scan, with the scan always taken
NeedsScan_Always(devices) == TRUE

\* `if not devices:` after the mDNS step
NeedsScan(devices) == devices = <<>>

\* the mDNS browse: the listener had collected `found` after the wait; when
\* Zeroconf raises before the copy, devices stays empty
DiscoverMdns(t, found, raised) ==
    /\ dpc[t] = "mdns"
    /\ UNCHANGED <<connVars, ftVars, rotVars, upVars, saveVars, speedVars, umVars>>
    /\ LET devices == IF raised THEN <<>> ELSE found
       IN  /\ dcalls' = [dcalls EXCEPT ![t] = Append(@, MdnsCall(devices))]
           /\ IF NeedsScan(devices)
              THEN /\ dpc' = [dpc EXCEPT ![t] = "scan"]
                   /\ ddevices' = [ddevices EXCEPT ![t] = devices]
                   /\ UNCHANGED <<dlast, dret>>
              ELSE DiscoverReturn(t, devices)

\* devices = self._scan_network(): the addresses of the subnet that answered
\* the handshake, none when the local address cannot be determined
DiscoverScan(t, found) ==
    /\ dpc[t] = "scan"
    /\ UNCHANGED <<connVars, ftVars, rotVars, upVars, saveVars, speedVars, umVars>>
    /\ dcalls' = [dcalls EXCEPT ![t] = Append(@, SweepCall(found))]
    /\ DiscoverReturn(t, found)

DiscNext ==
    \/ \E t \in Callers :
        \/ DiscoverBegin(t)
        \/ \E verified \in BOOLEAN : DiscoverCheckLast(t, verified)
        \/ \E found \in DeviceLists, raised \in BOOLEAN :
               DiscoverMdns(t, found, raised)
        \/ \E found \in DeviceLists : DiscoverScan(t, found)
    \/ \E newIp \in IPs : ConnectBegin("loop", newIp)
    \/ ConnectLock("loop")
    \/ ConnectOk("loop")
    \/ ConnectSave("loop")

(***************************************************************************)
(* upload_gif (pixoo_upload.py), run by the rotation loop on the event     *)
(* loop thread and by the /send handler on a worker thread                 *)
(***************************************************************************)
MAX_UPLOAD_FRAMES == 40
\* the frame counts of the GIFs uploaded: short ones, one at the ceiling and
\* one above it
FrameCounts == {1, 2, MAX_UPLOAD_FRAMES, MAX_UPLOAD_FRAMES + 1}
NoCaller == "none"
\* how one send_command(command) of an upload ends: the device answers with
\* error_code 0, it answers with another error_code, it answers with an HTTP
\* status other than 200, every attempt times out, or every attempt fails
\* with a connection error
CommandOutcomes == {"ok", "rejected", "http_error", "timeout", "refused"}

\* what upload_gif returns ({"success": True, "frames_sent": n, ...}) or
\* raises
Success(frames_sent) == <<"success", frames_sent>>
Raised(exception) == <<exception, 0>>
NoResult == <<"none", 0>>

\* the entries of ulog
ResetCommand == <<"reset", 0, 0>>

FrameCommand_OneBased(pic_offset, pic_num) == <<"frame", pic_offset + 1, pic_num>>

FrameCommand(pic_offset, pic_num) == <<"frame", pic_offset, pic_num>>
ProgressCall(current, total) == <<"progress", current, total>>

UpInit ==
    /\ upc = [t \in Callers |-> "idle"]
    /\ utotal = [t \in Callers |-> 0]
    /\ uoffset = [t \in Callers |-> 0]
    /\ ures = [t \in Callers |-> NoResult]
    /\ ulog = [t \in Callers |-> <<>>]
    /\ devLast = NoCaller

\* upload_gif returns or raises `r` in thread t
UploadReturn(t, r) ==
    /\ upc' = [upc EXCEPT ![t] = "idle"]
    /\ utotal' = [utotal EXCEPT ![t] = 0]
    /\ uoffset' = [uoffset EXCEPT ![t] = 0]
    /\ ures' = [ures EXCEPT ![t] = r]

\* send_command as the upload sees it: the connection state it leaves
\* (a run of connection errors closes the session and drops the flag)
CommandEffect(outcome) ==
    IF connected /\ outcome = "refused"
    THEN /\ sessOpen' = CloseSession(session)
         /\ session' = NoSession
         /\ connected' = FALSE
    ELSE UNCHANGED <<sessOpen, session, connected>>

\* the device received the command of thread t
Received(t, outcome) ==
    IF connected /\ outcome \in {"ok", "rejected", "http_error"}
    THEN t
    ELSE devLast

TooManyFrames_AtCeiling(total_frames) == total_frames >= MAX_UPLOAD_FRAMES

\* `if total_frames > MAX_UPLOAD_FRAMES`
TooManyFrames(total_frames) == total_frames > MAX_UPLOAD_FRAMES

\* upload_gif(path): the connection test, load_gif_frames and the ceiling
UploadBegin(t, total_frames) ==
    /\ ThreadFree(t)
    /\ LockFree
    /\ IF ~is_connected
       THEN UploadReturn(t, Raised("PixooConnectionError"))
       ELSE IF TooManyFrames(total_frames)
            THEN UploadReturn(t, Raised("TooManyFramesError"))
            ELSE /\ upc' = [upc EXCEPT ![t] = "reset"]
                 /\ utotal' = [utotal EXCEPT ![t] = total_frames]
                 /\ uoffset' = [uoffset EXCEPT ![t] = 0]
                 /\ ures' = [ures EXCEPT ![t] = NoResult]
    /\ ulog' = [ulog EXCEPT ![t] = <<>>]
    /\ UNCHANGED <<connVars, ftVars, rotVars, discVars, saveVars, speedVars,
                   umVars, devLast>>

\* reset_gif_buffer(): its answer is not looked at, an exception becomes
\* UploadError
UploadReset(t, outcome) ==
    /\ upc[t] = "reset"
    /\ LockFree
    /\ CommandEffect(outcome)
    /\ devLast' = Received(t, outcome)
    /\ ulog' = [ulog EXCEPT ![t] = Append(@, ResetCommand)]
    /\ IF connected /\ outcome \in {"ok", "rejected"}
       THEN /\ upc' = [upc EXCEPT ![t] = "frames"]
            /\ UNCHANGED <<utotal, uoffset, ures>>
       ELSE UploadReturn(t, Raised("UploadError"))
    /\ UNCHANGED <<ip, state_lock, lastIpFile, cpc, cip, csess, maxRetries,
                   attempt, posts, isConnErr, seen, cret, ftVars, rotVars,
                   discVars, saveVars, speedVars, umVars>>

\* send_gif_frame(pic_num, pic_offset, ...) for the frame at `offset`, then
\* the return of upload_gif after the last frame
UploadFrame(t, outcome) ==
    /\ upc[t] = "frames"
    /\ LockFree
    /\ CommandEffect(outcome)
    /\ devLast' = Received(t, outcome)
    /\ ulog' = [ulog EXCEPT ![t] =
                   @ \o <<ProgressCall(uoffset[t] + 1, utotal[t]),
                          FrameCommand(uoffset[t], utotal[t])>>]
    /\ IF ~connected \/ outcome \in {"http_error", "timeout", "refused"}
       THEN UploadReturn(t, Raised("PixooConnectionError"))
       ELSE IF outcome = "rejected"
            THEN UploadReturn(t, Raised("UploadError"))
            ELSE IF uoffset[t] + 1 = utotal[t]
                 THEN UploadReturn(t, Success(utotal[t]))
                 ELSE /\ uoffset' = [uoffset EXCEPT ![t] = @ + 1]
                      /\ UNCHANGED <<upc, utotal, ures>>
    /\ UNCHANGED <<ip, state_lock, lastIpFile, cpc, cip, csess, maxRetries,
                   attempt, posts, isConnErr, seen, cret, ftVars, rotVars,
                   discVars, saveVars, speedVars, umVars>>

UpNext ==
    \/ \E t \in Callers, total_frames \in FrameCounts :
           UploadBegin(t, total_frames)
    \/ \E t \in Callers, outcome \in CommandOutcomes : UploadReset(t, outcome)
    \/ \E t \in Callers, outcome \in CommandOutcomes : UploadFrame(t, outcome)
    \/ ConnectBegin("loop", "ip1")
    \/ ConnectLock("loop")
    \/ ConnectOk("loop")
    \/ ConnectSave("loop")
    \/ DisconnectLock("loop")
    \/ Disconnect("loop")

(***************************************************************************)
(* FileTracker and cleanup_files (file_utils.py)                           *)
(***************************************************************************)
Paths == {"p1", "p2"}
NoPath == "none"
NoTime == -1

FTInit ==
    /\ refs = <<>>
    /\ timestamps = <<>>
    /\ now = 0
    /\ onDisk = {}
    /\ lastTouch = [p \in Paths |-> NoTime]
    /\ clpc = "idle"
    /\ clpath = NoPath

\* self._refs.get(path, 0)
RefCount(p) == IF p \in DOMAIN refs THEN refs[p] ELSE 0

\* d[k] = v on a dict
DictSet(d, k, v) == [x \in DOMAIN d \cup {k} |-> IF x = k THEN v ELSE d[x]]

\* del d[k]
DictDel(d, k) == [x \in DOMAIN d \ {k} |-> d[x]]

\* FileTracker.is_in_use(path)
is_in_use(p) == RefCount(p) > 0

\* FileTracker.get_stale_files(ttl)
get_stale_files(ttl) ==
    {p \in DOMAIN timestamps : now - timestamps[p] > ttl /\ RefCount(p) = 0}

\* create_temp_output / stream_upload_to_temp: a temporary file appears
CreateFile(p) ==
    /\ p \notin onDisk
    /\ UNCHANGED nonFtVars
    /\ onDisk' = onDisk \cup {p}
    /\ UNCHANGED <<refs, timestamps, now, lastTouch, clpc, clpath>>

\* FileTracker.acquire(path)
Acquire(p) ==
    /\ RefCount(p) < MaxRefs
    /\ UNCHANGED nonFtVars
    /\ refs' = DictSet(refs, p, RefCount(p) + 1)
    /\ timestamps' = DictSet(timestamps, p, now)
    /\ lastTouch' = [lastTouch EXCEPT ![p] = now]
    /\ UNCHANGED <<now, onDisk, clpc, clpath>>

\* release without the test for a path that is not tracked
Release_Untested(p) ==
    /\ UNCHANGED nonFtVars
    /\ IF RefCount(p) - 1 <= 0 /\ p \in DOMAIN refs
       THEN /\ refs' = DictDel(refs, p)
            /\ timestamps' = DictDel(timestamps, p)
       ELSE /\ refs' = DictSet(refs, p, RefCount(p) - 1)
            /\ UNCHANGED timestamps
    /\ UNCHANGED <<now, onDisk, lastTouch, clpc, clpath>>

\* FileTracker.release(path); the value returned is ReleaseResult
Release(p) ==
    /\ UNCHANGED nonFtVars
    /\ IF p \notin DOMAIN refs
       THEN UNCHANGED <<refs, timestamps>>
       ELSE IF refs[p] - 1 <= 0
            THEN /\ refs' = DictDel(refs, p)
                 /\ timestamps' = DictDel(timestamps, p)
            ELSE /\ refs' = DictSet(refs, p, refs[p] - 1)
                 /\ UNCHANGED timestamps
    /\ UNCHANGED <<now, onDisk, lastTouch, clpc, clpath>>

\* what release(path) returns when called in the current state
ReleaseResult(p) == p \notin DOMAIN refs \/ refs[p] - 1 <= 0

\* time passes
Tick ==
    /\ now < MaxTime
    /\ UNCHANGED nonFtVars
    /\ now' = now + 1
    /\ UNCHANGED <<refs, timestamps, onDisk, lastTouch, clpc, clpath>>

\* cleanup_files([path]): the is_in_use test
CleanupCheck(p) ==
    /\ clpc = "idle"
    /\ UNCHANGED nonFtVars
    /\ IF is_in_use(p)
       THEN UNCHANGED <<clpc, clpath>>
       ELSE /\ clpc' = "unlink"
            /\ clpath' = p
    /\ UNCHANGED <<refs, timestamps, now, onDisk, lastTouch>>

\* cleanup_files([path]): path.exists() and path.unlink()
CleanupUnlink ==
    /\ clpc = "unlink"
    /\ UNCHANGED nonFtVars
    /\ onDisk' = onDisk \ {clpath}
    /\ clpc' = "idle"
    /\ clpath' = NoPath
    /\ UNCHANGED <<refs, timestamps, now, lastTouch>>

FTNext ==
    \/ \E p \in Paths : CreateFile(p)
    \/ \E p \in Paths : Acquire(p)
    \/ \E p \in Paths : Release(p)
    \/ Tick
    \/ \E p \in Paths : CleanupCheck(p)
    \/ CleanupUnlink

(***************************************************************************)
(* RotationManager (rotation_manager.py)                                   *)
(***************************************************************************)
ItemIds == {"a", "b"}
ROTATION_INTERVALS_Wide == {45, 60, 120, 300}

\* the keys of ROTATION_INTERVALS
ROTATION_INTERVALS == {60, 120, 300}
\* the interval_seconds values passed to start(): one valid, one not
IntervalArgs == {60, 45}
NoTask == 0
\* self._rotation_task refers to a task that has finished
DoneTask == -1
Tasks == 1..MaxTasks
\* "no file" is the document with version 0
NoConfig == [version |-> 0, selected_ids |-> <<>>, interval_seconds |-> 0]

\* the lists passed to start(): the selections of gallery items, that is
\* every list of distinct ids
IdLists ==
    {l \in UNION {[1..n -> ItemIds] : n \in 0..Cardinality(ItemIds)} :
        \A i, j \in 1..Len(l) : l[i] = l[j] => i = j}

RotInit ==
    /\ is_active = FALSE
    /\ is_paused = FALSE
    /\ selected_ids = <<>>
    /\ interval_seconds = 120
    /\ current_index = 0
    /\ shuffled_order = <<>>
    /\ attempted = <<>>
    /\ rotation_task = NoTask
    /\ taskPos = [k \in Tasks |-> "none"]
    /\ taskCancel = [k \in Tasks |-> FALSE]
    /\ taskFailures = [k \in Tasks |-> 0]
    /\ running = NoTask
    /\ configFile = NoConfig
    /\ galleryItems = ItemIds
    /\ diskOk = TRUE
    /\ rret = <<"none", "none">>

\* x in list
InList(x, list) == \E i \in 1..Len(list) : list[i] = x

\* list.index(x), 0-based, for x in list
IndexOf(x, list) == (CHOOSE i \in 1..Len(list) :
                        list[i] = x /\ \A j \in 1..(i - 1) : list[j] # x) - 1

\* list.remove(x): drops the first occurrence of x
ListRemove(x, list) ==
    LET i == IndexOf(x, list) + 1
    IN  [j \in 1..(Len(list) - 1) |-> IF j < i THEN list[j] ELSE list[j + 1]]

\* the results random.shuffle can leave in a copy of list
Shuffles(list) ==
    LET n == Len(list)
        Bij == {f \in [1..n -> 1..n] : \A i, j \in 1..n : f[i] = f[j] => i = j}
    IN  {[i \in 1..n |-> list[f[i]]] : f \in Bij}

_validate_ids_KeepsAll(ids) == ids

\* RotationManager._validate_ids(ids)
_validate_ids(ids) == SelectSeq(ids, LAMBDA x : x \in galleryItems)

\* the document _save_config writes
ConfigDoc == [version |-> 1, selected_ids |-> selected_ids,
              interval_seconds |-> interval_seconds]

\* the event loop thread is free to run a request handler or to resume a task
LoopFree ==
    /\ running = NoTask
    /\ cpc["loop"] = "idle"
    /\ upc["loop"] = "idle"
    /\ wpc = "idle"

\* a task that exists and has not finished
Unfinished(k) == taskPos[k] # "none"

\* asyncio.create_task: an identity that no unfinished task has
NewTask ==
    CHOOSE k \in Tasks :
        ~Unfinished(k) /\ \A j \in 1..(k - 1) : Unfinished(j)

StopTaskCancel_NoCancel == taskCancel

\* _stop_internal: the task part (cancel the task unless it is done)
StopTaskCancel ==
    IF rotation_task \in Tasks /\ Unfinished(rotation_task)
    THEN [taskCancel EXCEPT ![rotation_task] = TRUE]
    ELSE taskCancel

StopTaskRef ==
    IF rotation_task \in Tasks /\ Unfinished(rotation_task)
    THEN NoTask
    ELSE rotation_task

\* start(): `if self._is_active: self._stop_internal()`
StopTaskCancelIfActive == IF is_active THEN StopTaskCancel ELSE taskCancel

\* a cancel() that leaves the task in the sleep it waits on
Interrupted_KeepsSleeping(cancel) == taskPos

\* Task.cancel() called by a request handler: the task is suspended, the
\* sleep it waits on is cancelled at once and the task is left to be woken
\* with CancelledError
Interrupted(cancel) ==
    [k \in Tasks |-> IF cancel[k] THEN "cancelling" ELSE taskPos[k]]

\* the counter of a task that was interrupted is in a frame that is unwound
\* without reading it
Unwound(cancel) ==
    [k \in Tasks |-> IF cancel[k] THEN 0 ELSE taskFailures[k]]

\* _load_config(): the value returned
_load_config ==
    IF configFile.version # 1 THEN NoConfig
    ELSE LET valid_ids == _validate_ids(configFile.selected_ids)
         IN  IF valid_ids = <<>> THEN NoConfig
             ELSE [configFile EXCEPT !.selected_ids = valid_ids]

DeletedConfig_Kept == configFile

\* _delete_config(): the file afterwards (an unlink error is logged, dropped)
DeletedConfig == IF diskOk THEN NoConfig ELSE configFile

\* _load_config(): the file afterwards (a config without valid ids is deleted)
LoadConfigFile ==
    IF configFile.version = 1 /\ _validate_ids(configFile.selected_ids) = <<>>
    THEN DeletedConfig
    ELSE configFile

\* get_status(): the fields of the RotationStatus returned
RotationStatus ==
    LET saved_config == IF ~is_active THEN _load_config ELSE NoConfig
        has_saved == saved_config # NoConfig
    IN  [is_active |-> is_active,
         is_paused |-> is_paused,
         selected_ids |-> IF is_active THEN selected_ids
                          ELSE saved_config.selected_ids,
         interval_seconds |-> interval_seconds,
         current_index |-> current_index,
         has_saved_config |-> has_saved]

\* get_status(), called by a request handler
GetStatus ==
    /\ LoopFree
    /\ UNCHANGED nonRotVars
    /\ configFile' = IF is_active THEN configFile ELSE LoadConfigFile
    /\ UNCHANGED <<is_active, is_paused, selected_ids, interval_seconds,
                   current_index, shuffled_order, attempted, rotation_task, taskPos,
                   taskCancel, taskFailures, running, galleryItems,
                   diskOk, rret>>

\* the history after add_item or remove_item changed the order: the
\* traversal under way is no longer the one that was shuffled
Edited == <<"edited">>

\* the history when the loop, or a handler, holds `order` and `index`: a
\* reshuffle by the loop has emptied it
AtRead(order, index) ==
    IF order = shuffled_order /\ index = current_index THEN attempted
    ELSE <<>>

\* the history after the loop handed item_id to upload_gif
Attempt(item_id) ==
    IF current_index >= Len(shuffled_order) THEN <<item_id>>
    ELSE IF attempted = Edited THEN Edited
    ELSE Append(attempted, item_id)

\* the body of start() once the arguments went through validation; when the
\* config cannot be written the exception leaves start() before the task is
\* created
StartValid(op, valid_ids, interval) ==
    /\ is_active' = TRUE
    /\ is_paused' = FALSE
    /\ selected_ids' = valid_ids
    /\ interval_seconds' = interval
    /\ current_index' = 0
    /\ shuffled_order' \in Shuffles(valid_ids)
    /\ attempted' = <<>>
    /\ IF diskOk
       THEN /\ configFile' = [version |-> 1, selected_ids |-> valid_ids,
                              interval_seconds |-> interval]
            /\ rotation_task' = NewTask
            /\ taskCancel' = StopTaskCancelIfActive
            /\ taskPos' = [Interrupted(StopTaskCancelIfActive)
                              EXCEPT ![NewTask] = "new"]
            /\ taskFailures' = Unwound(StopTaskCancelIfActive)
            /\ rret' = <<op, "True">>
       ELSE /\ rotation_task' = (IF is_active THEN StopTaskRef
                                 ELSE rotation_task)
            /\ taskCancel' = StopTaskCancelIfActive
            /\ taskPos' = Interrupted(StopTaskCancelIfActive)
            /\ taskFailures' = Unwound(StopTaskCancelIfActive)
            /\ rret' = <<op, "OSError">>
            /\ UNCHANGED configFile

\* start(selected_ids, interval_seconds)
Start(ids, interval) ==
    /\ LoopFree
    /\ UNCHANGED nonRotVars
    /\ IF ids = <<>> \/ interval \notin ROTATION_INTERVALS
                     \/ _validate_ids(ids) = <<>>
       THEN /\ rret' = <<"start", "False">>
            /\ UNCHANGED <<is_active, is_paused, selected_ids,
                           interval_seconds, current_index, shuffled_order, attempted,
                           rotation_task, taskPos, taskCancel, taskFailures,
                           configFile>>
       ELSE /\ \E k \in Tasks : ~Unfinished(k)
            /\ StartValid("start", _validate_ids(ids), interval)
    /\ UNCHANGED <<running, galleryItems, diskOk>>

\* stop()
Stop ==
    /\ LoopFree
    /\ UNCHANGED nonRotVars
    /\ IF ~is_active
       THEN /\ rret' = <<"stop", "False">>
            /\ UNCHANGED <<is_active, is_paused, rotation_task, taskPos,
                           taskCancel, taskFailures, configFile>>
       ELSE /\ is_active' = FALSE
            /\ is_paused' = FALSE
            /\ taskCancel' = StopTaskCancel
            /\ taskPos' = Interrupted(StopTaskCancel)
            /\ taskFailures' = Unwound(StopTaskCancel)
            /\ rotation_task' = StopTaskRef
            /\ IF selected_ids = <<>>
               THEN rret' = <<"stop", "True">> /\ UNCHANGED configFile
               ELSE IF diskOk
                    THEN rret' = <<"stop", "True">> /\ configFile' = ConfigDoc
                    ELSE rret' = <<"stop", "OSError">> /\ UNCHANGED configFile
    /\ UNCHANGED <<selected_ids, interval_seconds, current_index,
                   shuffled_order, attempted, running, galleryItems, diskOk>>

\* resume()
Resume ==
    /\ LoopFree
    /\ UNCHANGED nonRotVars
    /\ IF _load_config = NoConfig
       THEN /\ rret' = <<"resume", "False">>
            /\ configFile' = LoadConfigFile
            /\ UNCHANGED <<is_active, is_paused, selected_ids,
                           interval_seconds, current_index, shuffled_order, attempted,
                           rotation_task, taskPos, taskCancel, taskFailures>>
       ELSE IF _load_config.interval_seconds \notin ROTATION_INTERVALS
            THEN /\ rret' = <<"resume", "False">>
                 /\ UNCHANGED <<is_active, is_paused, selected_ids,
                                interval_seconds, current_index,
                                shuffled_order, attempted, rotation_task, taskPos,
                                taskCancel, taskFailures, configFile>>
            ELSE /\ \E k \in Tasks : ~Unfinished(k)
                 /\ StartValid("resume", _load_config.selected_ids,
                               _load_config.interval_seconds)
    /\ UNCHANGED <<running, galleryItems, diskOk>>

\* add_item that does not write the config
AddItem_Unsaved(item_id) ==
    /\ LoopFree
    /\ UNCHANGED nonRotVars
    /\ IF item_id \notin galleryItems \/ ~is_active
       THEN /\ rret' = <<"add_item", "False">>
            /\ UNCHANGED <<selected_ids, shuffled_order, attempted, configFile>>
       ELSE IF InList(item_id, selected_ids)
            THEN /\ rret' = <<"add_item", "True">>
                 /\ UNCHANGED <<selected_ids, shuffled_order, attempted, configFile>>
            ELSE /\ selected_ids' = Append(selected_ids, item_id)
                 /\ shuffled_order' = Append(shuffled_order, item_id)
                 /\ attempted' = Edited
                 /\ rret' = <<"add_item", "True">>
                 /\ UNCHANGED configFile
    /\ UNCHANGED <<is_active, is_paused, interval_seconds, current_index,
                   rotation_task, taskPos, taskCancel, taskFailures, running,
                   galleryItems, diskOk>>

\* add_item without the test for an id that is selected already
AddItem_Duplicates(item_id) ==
    /\ LoopFree
    /\ UNCHANGED nonRotVars
    /\ IF item_id \notin galleryItems \/ ~is_active
       THEN /\ rret' = <<"add_item", "False">>
            /\ UNCHANGED <<selected_ids, shuffled_order, attempted, configFile>>
       ELSE IF FALSE
            THEN /\ rret' = <<"add_item", "True">>
                 /\ UNCHANGED <<selected_ids, shuffled_order, attempted, configFile>>
            ELSE /\ selected_ids' = Append(selected_ids, item_id)
                 /\ shuffled_order' = Append(shuffled_order, item_id)
                 /\ attempted' = Edited
                 /\ IF diskOk
                    THEN /\ rret' = <<"add_item", "True">>
                         /\ configFile' =
                              [version |-> 1,
                               selected_ids |-> Append(selected_ids, item_id),
                               interval_seconds |-> interval_seconds]
                    ELSE rret' = <<"add_item", "OSError">> /\ UNCHANGED configFile
    /\ UNCHANGED <<is_active, is_paused, interval_seconds, current_index,
                   rotation_task, taskPos, taskCancel, taskFailures, running,
                   galleryItems, diskOk>>

\* add_item(item_id)
AddItem(item_id) ==
    /\ LoopFree
    /\ UNCHANGED nonRotVars
    /\ IF item_id \notin galleryItems \/ ~is_active
       THEN /\ rret' = <<"add_item", "False">>
            /\ UNCHANGED <<selected_ids, shuffled_order, attempted, configFile>>
       ELSE IF InList(item_id, selected_ids)
            THEN /\ rret' = <<"add_item", "True">>
                 /\ UNCHANGED <<selected_ids, shuffled_order, attempted, configFile>>
            ELSE /\ selected_ids' = Append(selected_ids, item_id)
                 /\ shuffled_order' = Append(shuffled_order, item_id)
                 /\ attempted' = Edited
                 /\ IF diskOk
                    THEN /\ rret' = <<"add_item", "True">>
                         /\ configFile' =
                              [version |-> 1,
                               selected_ids |-> Append(selected_ids, item_id),
                               interval_seconds |-> interval_seconds]
                    ELSE rret' = <<"add_item", "OSError">> /\ UNCHANGED configFile
    /\ UNCHANGED <<is_active, is_paused, interval_seconds, current_index,
                   rotation_task, taskPos, taskCancel, taskFailures, running,
                   galleryItems, diskOk>>

\* remove_item that leaves _current_index as it is
RemoveItemBody_KeepsIndex(item_id, order, index, r) ==
    IF ~is_active \/ ~InList(item_id, selected_ids)
    THEN /\ r = "False"
         /\ shuffled_order' = order
         /\ attempted' = AtRead(order, index)
         /\ current_index' = index
         /\ UNCHANGED <<is_active, is_paused, selected_ids, rotation_task,
                        taskCancel, configFile>>
    ELSE LET new_selected == ListRemove(item_id, selected_ids)
             in_order == InList(item_id, order)
         IN  /\ selected_ids' = new_selected
             /\ attempted' = Edited
             /\ shuffled_order' = IF in_order THEN ListRemove(item_id, order)
                                  ELSE order
             /\ current_index' = index
             /\ IF new_selected = <<>>
                THEN /\ is_active' = FALSE
                     /\ is_paused' = FALSE
                     /\ taskCancel' = StopTaskCancel
                     /\ rotation_task' = StopTaskRef
                     /\ configFile' = DeletedConfig
                     /\ r = "True"
                ELSE /\ UNCHANGED <<is_active, is_paused, taskCancel,
                                    rotation_task>>
                     /\ IF diskOk
                        THEN /\ r = "True"
                             /\ configFile' =
                                  [version |-> 1,
                                   selected_ids |-> new_selected,
                                   interval_seconds |-> interval_seconds]
                        ELSE r = "OSError" /\ UNCHANGED configFile

\* the body of remove_item(item_id), run by a handler or by the loop itself
\* (then right after a possible reshuffle): `order` and `index` are
\* _shuffled_order and _current_index when it is entered, `r` is what the
\* call returns or raises
RemoveItemBody(item_id, order, index, r) ==
    IF ~is_active \/ ~InList(item_id, selected_ids)
    THEN /\ r = "False"
         /\ shuffled_order' = order
         /\ attempted' = AtRead(order, index)
         /\ current_index' = index
         /\ UNCHANGED <<is_active, is_paused, selected_ids, rotation_task,
                        taskCancel, configFile>>
    ELSE LET new_selected == ListRemove(item_id, selected_ids)
             in_order == InList(item_id, order)
             idx == IndexOf(item_id, order)
         IN  /\ selected_ids' = new_selected
             /\ attempted' = Edited
             /\ shuffled_order' = IF in_order THEN ListRemove(item_id, order)
                                  ELSE order
             /\ current_index' = IF in_order /\ idx < index THEN index - 1
                                 ELSE index
             /\ IF new_selected = <<>>
                THEN /\ is_active' = FALSE
                     /\ is_paused' = FALSE
                     /\ taskCancel' = StopTaskCancel
                     /\ rotation_task' = StopTaskRef
                     /\ configFile' = DeletedConfig
                     /\ r = "True"
                ELSE /\ UNCHANGED <<is_active, is_paused, taskCancel,
                                    rotation_task>>
                     /\ IF diskOk
                        THEN /\ r = "True"
                             /\ configFile' =
                                  [version |-> 1,
                                   selected_ids |-> new_selected,
                                   interval_seconds |-> interval_seconds]
                        ELSE r = "OSError" /\ UNCHANGED configFile

\* remove_item(item_id), called by a request handler
RemoveItem(item_id) ==
    /\ LoopFree
    /\ UNCHANGED nonRotVars
    /\ \E r \in {"True", "False", "OSError"} :
          /\ RemoveItemBody(item_id, shuffled_order, current_index, r)
          /\ rret' = <<"remove_item", r>>
    /\ taskPos' = Interrupted(taskCancel')
    /\ taskFailures' = Unwound(taskCancel')
    /\ UNCHANGED <<interval_seconds, running, galleryItems, diskOk>>

\* DELETE /api/rotation/config: delete_saved_config(), refused by the handler
\* while a rotation is active
DeleteSavedConfig ==
    /\ LoopFree
    /\ ~is_active
    /\ UNCHANGED nonRotVars
    /\ configFile' = DeletedConfig
    /\ rret' = <<"delete_saved_config", IF diskOk THEN "True" ELSE "False">>
    /\ UNCHANGED <<is_active, is_paused, selected_ids, interval_seconds,
                   current_index, shuffled_order, attempted, rotation_task, taskPos,
                   taskCancel, taskFailures, running, galleryItems,
                   diskOk>>

\* gallery.delete_item(item_id), run on a worker thread
GalleryDelete(item_id) ==
    /\ item_id \in galleryItems
    /\ UNCHANGED nonRotVars
    /\ galleryItems' = galleryItems \ {item_id}
    /\ UNCHANGED <<is_active, is_paused, selected_ids, interval_seconds,
                   current_index, shuffled_order, attempted, rotation_task, taskPos,
                   taskCancel, taskFailures, running, configFile,
                   diskOk, rret>>

(***************************************************************************)
(* The two persisted files, step by step and with faults: the disk that    *)
(* refuses a write, the process that ends in the middle of one             *)
(***************************************************************************)
\* a file opened for writing and not yet written to the end: json.load
\* raises on it, it has no version
TornConfig == [version |-> -1, selected_ids |-> <<>>, interval_seconds |-> 0]

\* the documents _save_config can be asked to write: a selection that
\* start() has validated with an interval it has accepted
SavedIntervals == {60, 300}

SaveInit ==
    /\ wpc = "idle"
    /\ wdata = NoConfig
    /\ tempFile = NoConfig
    /\ wret = "none"

\* writes in USER_DATA_DIR begin to fail, or succeed again
DiskFault ==
    /\ diskOk' = ~diskOk
    /\ UNCHANGED <<connVars, ftVars, upVars, discVars, saveVars, speedVars,
                   umVars>>
    /\ UNCHANGED <<is_active, is_paused, selected_ids, interval_seconds,
                   current_index, shuffled_order, attempted, rotation_task, taskPos,
                   taskCancel, taskFailures, running, configFile,
                   galleryItems, rret>>

\* _save_config that opens ROTATION_CONFIG_FILE itself for writing
SaveConfig_InPlace(ids, interval) ==
    /\ LoopFree
    /\ ids # <<>>
    /\ diskOk
    /\ wdata' = [version |-> 1, selected_ids |-> ids,
                 interval_seconds |-> interval]
    /\ configFile' = TornConfig
    /\ wpc' = "temp_open"
    /\ wret' = "none"
    /\ UNCHANGED <<connVars, ftVars, upVars, discVars, speedVars, umVars,
                   tempFile>>
    /\ UNCHANGED <<is_active, is_paused, selected_ids, interval_seconds,
                   current_index, shuffled_order, attempted, rotation_task, taskPos,
                   taskCancel, taskFailures, running, galleryItems, diskOk,
                   rret>>

\* _save_config() with self._selected_ids = ids and self._interval_seconds =
\* interval, up to mkstemp of _atomic_json_write: nothing to do without ids;
\* mkdir or mkstemp that fails raises before there is a temp file
SaveConfig(ids, interval) ==
    /\ LoopFree
    /\ IF ids = <<>>
       THEN /\ wret' = "None"
            /\ UNCHANGED <<wpc, wdata, tempFile>>
       ELSE IF diskOk
            THEN /\ wdata' = [version |-> 1, selected_ids |-> ids,
                              interval_seconds |-> interval]
                 /\ tempFile' = TornConfig
                 /\ wpc' = "temp_open"
                 /\ wret' = "none"
            ELSE /\ wret' = "OSError"
                 /\ UNCHANGED <<wpc, wdata, tempFile>>
    /\ UNCHANGED <<connVars, ftVars, rotVars, upVars, discVars, speedVars,
                   umVars>>

\* json.dump(data, f) and the close of the temp file; on an exception the
\* temp file is unlinked and the exception raised again
AtomicWriteDump ==
    /\ wpc = "temp_open"
    /\ IF diskOk
       THEN /\ tempFile' = wdata
            /\ wpc' = "temp_written"
            /\ UNCHANGED <<wdata, wret>>
       ELSE /\ tempFile' = NoConfig
            /\ wpc' = "idle"
            /\ wdata' = NoConfig
            /\ wret' = "OSError"
    /\ UNCHANGED <<connVars, ftVars, rotVars, upVars, discVars, speedVars,
                   umVars>>

\* os.replace(temp_path, filepath): the target becomes the temp file in one
\* step; on an exception the temp file is unlinked and the exception raised
AtomicWriteReplace ==
    /\ wpc = "temp_written"
    /\ IF diskOk
       THEN /\ configFile' = tempFile
            /\ wret' = "None"
       ELSE /\ wret' = "OSError"
            /\ UNCHANGED configFile
    /\ tempFile' = NoConfig
    /\ wpc' = "idle"
    /\ wdata' = NoConfig
    /\ UNCHANGED <<connVars, ftVars, upVars, discVars, speedVars, umVars>>
    /\ UNCHANGED <<is_active, is_paused, selected_ids, interval_seconds,
                   current_index, shuffled_order, attempted, rotation_task, taskPos,
                   taskCancel, taskFailures, running, galleryItems, diskOk,
                   rret>>

\* _save_last_ip(ip) of connect, first half: mkdir, and write_text opens
\* LAST_CONNECTION_FILE for writing, which empties it; an exception is
\* logged and connect returns True
SaveLastIpOpen(t) ==
    /\ cpc[t] = "connect_save"
    /\ UNCHANGED nonConnVars
    /\ IF diskOk
       THEN /\ lastIpFile' = TornFile
            /\ cpc' = [cpc EXCEPT ![t] = "connect_saving"]
            /\ UNCHANGED <<cip, csess, maxRetries, attempt, posts,
                           isConnErr, seen, cret>>
       ELSE /\ Return(t, "True")
            /\ UNCHANGED lastIpFile
    /\ UNCHANGED <<connState, state_lock>>

\* _save_last_ip(ip), second half: the document is written and the file
\* closed; an exception is logged and connect returns True
SaveLastIpWrite(t) ==
    /\ cpc[t] = "connect_saving"
    /\ UNCHANGED nonConnVars
    /\ lastIpFile' = IF diskOk THEN cip[t] ELSE lastIpFile
    /\ Return(t, "True")
    /\ UNCHANGED <<connState, state_lock>>

(***************************************************************************)
(* UploadManager (upload_manager.py)                                       *)
(***************************************************************************)
UploadIds == {"u1", "u2"}

\* self.ttl, in ticks of the model's clock
upload_ttl == 1

\* get() returning None; the data of no entry
NoData == [path |-> NoPath, converted_path |-> NoPath]

\* the calls made on the manager
UMCalls == {"none", "set", "get", "update", "delete", "exists",
            "cleanup_expired"}

UMInit ==
    /\ _entries = <<>>
    /\ umret = [op |-> "none", id |-> "none", data |-> NoData,
                ok |-> FALSE, expired |-> FALSE]

\* what the methods of UploadManager leave alone
nonUmVars == <<connVars, rotVars, upVars, discVars, saveVars, speedVars>>

\* UploadEntry.is_expired(self.ttl) of the entry of an id that has one
is_expired(u) == now - _entries[u].created_at > upload_ttl

\* the paths _delete_entry hands to cleanup_files
paths_to_clean(u) ==
    {_entries[u].data.path, _entries[u].data.converted_path} \ {NoPath}

\* cleanup_files(paths): the files on disk afterwards; a path in use is
\* left alone
cleanup_files(paths) == onDisk \ {p \in paths : ~is_in_use(p)}

\* _delete_entry(upload_id, entry)
_delete_entry(u) ==
    /\ onDisk' = cleanup_files(paths_to_clean(u))
    /\ _entries' = DictDel(_entries, u)

\* what a call returned
Returned(op, u, data, ok, expired) ==
    umret' = [op |-> op, id |-> u, data |-> data, ok |-> ok,
              expired |-> expired]

\* the temporary file streamed for an upload id
UploadPath(u) == IF u = "u1" THEN "p1" ELSE "p2"

\* set(upload_id, {"path": p})
UMSet(u, p) ==
    /\ _entries' = DictSet(_entries, u,
                           [data |-> [path |-> p, converted_path |-> NoPath],
                            created_at |-> now])
    /\ Returned("set", u, NoData, TRUE, FALSE)
    /\ UNCHANGED <<nonUmVars, ftVars>>

\* get that answers None for an expired entry and keeps it
UMGet_KeepsExpired(u) ==
    /\ IF u \notin DOMAIN _entries
       THEN Returned("get", u, NoData, FALSE, FALSE)
       ELSE IF is_expired(u)
            THEN Returned("get", u, NoData, FALSE, TRUE)
            ELSE Returned("get", u, _entries[u].data, TRUE, FALSE)
    /\ UNCHANGED <<_entries, onDisk>>
    /\ UNCHANGED <<refs, timestamps, now, lastTouch, clpc, clpath>>
    /\ UNCHANGED nonUmVars

\* get(upload_id)
UMGet(u) ==
    /\ IF u \notin DOMAIN _entries
       THEN /\ Returned("get", u, NoData, FALSE, FALSE)
            /\ UNCHANGED <<_entries, onDisk>>
       ELSE IF is_expired(u)
            THEN /\ _delete_entry(u)
                 /\ Returned("get", u, NoData, FALSE, TRUE)
            ELSE /\ Returned("get", u, _entries[u].data, TRUE, FALSE)
                 /\ UNCHANGED <<_entries, onDisk>>
    /\ UNCHANGED <<refs, timestamps, now, lastTouch, clpc, clpath>>
    /\ UNCHANGED nonUmVars

\* exists(upload_id): self.get(upload_id) is not None
UMExists(u) ==
    /\ IF u \notin DOMAIN _entries
       THEN /\ Returned("exists", u, NoData, FALSE, FALSE)
            /\ UNCHANGED <<_entries, onDisk>>
       ELSE IF is_expired(u)
            THEN /\ _delete_entry(u)
                 /\ Returned("exists", u, NoData, FALSE, TRUE)
            ELSE /\ Returned("exists", u, NoData, TRUE, FALSE)
                 /\ UNCHANGED <<_entries, onDisk>>
    /\ UNCHANGED <<refs, timestamps, now, lastTouch, clpc, clpath>>
    /\ UNCHANGED nonUmVars

\* update(upload_id, converted_path=q)
UMUpdate(u, q) ==
    /\ IF u \notin DOMAIN _entries
       THEN /\ Returned("update", u, NoData, FALSE, FALSE)
            /\ UNCHANGED _entries
       ELSE IF is_expired(u)
            THEN /\ Returned("update", u, NoData, FALSE, TRUE)
                 /\ UNCHANGED _entries
            ELSE /\ _entries' = [_entries EXCEPT
                                    ![u].data.converted_path = q]
                 /\ Returned("update", u, NoData, TRUE, FALSE)
    /\ UNCHANGED <<nonUmVars, ftVars>>

\* delete(upload_id)
UMDelete(u) ==
    /\ IF u \notin DOMAIN _entries
       THEN /\ Returned("delete", u, NoData, FALSE, FALSE)
            /\ UNCHANGED <<_entries, onDisk>>
       ELSE /\ _delete_entry(u)
            /\ Returned("delete", u, NoData, TRUE, FALSE)
    /\ UNCHANGED <<refs, timestamps, now, lastTouch, clpc, clpath>>
    /\ UNCHANGED nonUmVars

\* cleanup_expired()
UMCleanupExpired ==
    LET expired_ids == {u \in DOMAIN _entries : is_expired(u)}
    IN  /\ onDisk' = cleanup_files(UNION {paths_to_clean(u) :
                                              u \in expired_ids})
        /\ _entries' = [u \in DOMAIN _entries \ expired_ids |-> _entries[u]]
        /\ Returned("cleanup_expired", "none", NoData,
                    expired_ids # {}, expired_ids # {})
        /\ UNCHANGED <<refs, timestamps, now, lastTouch, clpc, clpath>>
        /\ UNCHANGED nonUmVars

\* what get(upload_id) would return in the current state
get(u) ==
    IF u \in DOMAIN _entries /\ ~is_expired(u) THEN _entries[u].data
    ELSE NoData

\* the file a sender acquires for the time of an upload to the device
SentPaths == {"p1"}

UMNext ==
    \/ \E u \in UploadIds : UMSet(u, UploadPath(u))
    \/ \E u \in UploadIds : UMGet(u)
    \/ \E u \in UploadIds : UMExists(u)
    \/ \E u \in UploadIds, q \in Paths : UMUpdate(u, q)
    \/ \E u \in UploadIds : UMDelete(u)
    \/ UMCleanupExpired
    \/ \E p \in Paths : CreateFile(p)
    \/ \E p \in SentPaths : Acquire(p)
    \/ \E p \in SentPaths : Release(p)
    \/ Tick

(***************************************************************************)
(* upload_gif: the playback speed                                          *)
(***************************************************************************)

\* frame durations in milliseconds, as PIL reports them
DurationValues == {0, 20, 49, 50, 51, 75, 100}

\* speed = None
NoSpeed == -1

\* the `speed` arguments of upload_gif besides None
SpeedArgs == {0, 30, 50, 200}

\* the lists load_gif_frames can return for a GIF of 1..MaxDurations frames
DurationLists ==
    UNION {[1..n -> DurationValues] : n \in 1..MaxDurations}

\* sum(durations)
RECURSIVE sum(_)
sum(durs) ==
    IF durs = <<>> THEN 0 ELSE Head(durs) + sum(Tail(durs))

\* the speed without the minimum of 50 ms
SpeedInUse_NoMinimum(durs, sp) ==
    IF sp = NoSpeed THEN sum(durs) \div Len(durs) ELSE sp

\* the value of `speed` after "if speed is None: ..."
SpeedInUse(durs, sp) ==
    IF sp = NoSpeed
    THEN LET avg_duration == sum(durs) \div Len(durs)
         IN  IF avg_duration > 50 THEN avg_duration ELSE 50
    ELSE sp

\* no upload_gif call has been made
SpeedInit ==
    /\ durations = <<>>
    /\ speedArg = NoSpeed
    /\ speed = NoSpeed
    /\ speed_ms = NoSpeed

\* upload_gif(path, speed) is called on a GIF with these durations
SpeedCallInit ==
    /\ ConnInit /\ FTInit /\ RotInit /\ UpInit /\ DiscInit /\ SaveInit
    /\ UMInit
    /\ durations \in DurationLists
    /\ speedArg \in SpeedArgs \cup {NoSpeed}
    /\ speed = speedArg
    /\ speed_ms = NoSpeed

\* "if speed is None: avg_duration = ...; speed = max(avg_duration, 50)"
ComputeSpeed ==
    /\ durations # <<>>
    /\ speed_ms = NoSpeed
    /\ speed = speedArg
    /\ speed' = SpeedInUse(durations, speed)
    /\ speed' # speed
    /\ UNCHANGED <<durations, speedArg, speed_ms>>
    /\ UNCHANGED <<connVars, ftVars, rotVars, upVars, discVars, saveVars,
                   umVars>>

\* the frames are sent with `speed` and the dict is returned
ReturnSpeed ==
    /\ durations # <<>>
    /\ speed_ms = NoSpeed
    /\ speed = SpeedInUse(durations, speedArg)
    /\ speed_ms' = speed
    /\ UNCHANGED <<durations, speedArg, speed>>
    /\ UNCHANGED <<connVars, ftVars, rotVars, upVars, discVars, saveVars,
                   umVars>>

SpeedNext ==
    \/ ComputeSpeed
    \/ ReturnSpeed

SpecSpeed == SpeedCallInit /\ [][SpeedNext]_vars

(***************************************************************************)
(* _rotation_loop: one asyncio task per start()                            *)
(***************************************************************************)
max_failures == 3
\* how the call upload_gif(gif_path) of the loop can end: it returns, it
\* raises with the connection left as it was, or it raises after
\* send_command tore the connection down
UploadOutcomes == {"success", "error", "connection_lost"}

\* the counter that stays at the cap instead of starting again
consecutive_failures_Saturating(failures, outcome) ==
    IF outcome = "success" THEN 0
    ELSE IF failures + 1 >= max_failures THEN max_failures ELSE failures + 1

\* consecutive_failures after upload_gif returned or raised: 0 after a
\* success, one more after a failure, and 0 again once it reaches the cap
consecutive_failures(failures, outcome) ==
    IF outcome = "success" THEN 0
    ELSE IF failures + 1 >= max_failures THEN 0 ELSE failures + 1

\* task k is at the `while self._is_active` test: it holds the event loop
\* after a `continue`, or the event loop resumes it after a sleep that ended
AtLoopTop(k) ==
    \/ running = k /\ taskPos[k] = "top"
    \/ /\ LoopFree
       /\ ~taskCancel[k]
       /\ taskPos[k] \in {"new", "interval_sleep", "poll_paused", "error_sleep"}

\* the reshuffle of a completed cycle, then the read of the current id
OrdersAtRead ==
    IF current_index >= Len(shuffled_order)
    THEN Shuffles(selected_ids)
    ELSE {shuffled_order}

IndexAtRead ==
    IF current_index >= Len(shuffled_order) THEN 0 ELSE current_index

\* the loop ends: the rotation is no longer active, or the order is empty
LoopExit(k) ==
    /\ AtLoopTop(k)
    /\ ~is_active \/ (connected /\ shuffled_order = <<>>)
    /\ UNCHANGED nonRotVars
    /\ taskPos' = [taskPos EXCEPT ![k] = "none"]
    /\ taskCancel' = [taskCancel EXCEPT ![k] = FALSE]
    /\ taskFailures' = [taskFailures EXCEPT ![k] = 0]
    /\ rotation_task' = IF rotation_task = k THEN DoneTask ELSE rotation_task
    /\ running' = NoTask
    /\ UNCHANGED <<is_active, is_paused, selected_ids, interval_seconds,
                   current_index, shuffled_order, attempted, configFile, galleryItems,
                   diskOk, rret>>

\* LoopDisconnected that skips the current item when it pauses
LoopDisconnected_Advances(k) ==
    /\ AtLoopTop(k)
    /\ is_active
    /\ ~connected
    /\ UNCHANGED nonRotVars
    /\ IF is_paused
       THEN /\ taskPos' = [taskPos EXCEPT ![k] = "poll_paused"]
            /\ UNCHANGED <<is_paused, current_index>>
       ELSE /\ is_paused' = TRUE
            /\ current_index' = IF current_index < Len(shuffled_order)
                                 THEN current_index + 1 ELSE current_index
            /\ taskPos' = [taskPos EXCEPT ![k] = "poll_wait"]
    /\ running' = NoTask
    /\ UNCHANGED <<is_active, selected_ids, interval_seconds,
                   shuffled_order, attempted, rotation_task, taskCancel, taskFailures,
                   configFile, galleryItems, diskOk, rret>>

\* _handle_disconnection: the device is not connected
LoopDisconnected(k) ==
    /\ AtLoopTop(k)
    /\ is_active
    /\ ~connected
    /\ UNCHANGED nonRotVars
    /\ IF is_paused
       THEN /\ taskPos' = [taskPos EXCEPT ![k] = "poll_paused"]
            /\ UNCHANGED is_paused
       ELSE /\ is_paused' = TRUE
            /\ taskPos' = [taskPos EXCEPT ![k] = "poll_wait"]
    /\ running' = NoTask
    /\ UNCHANGED <<is_active, selected_ids, interval_seconds, current_index,
                   shuffled_order, attempted, rotation_task, taskCancel, taskFailures,
                   configFile, galleryItems, diskOk, rret>>

\* PollWake that goes back to the loop without clearing is_paused
PollWake_KeepsPaused(k) ==
    /\ LoopFree
    /\ ~taskCancel[k]
    /\ taskPos[k] = "poll_wait"
    /\ UNCHANGED nonRotVars
    /\ IF ~connected /\ is_active /\ is_paused
       THEN UNCHANGED <<taskPos, running>>
       ELSE /\ taskPos' = [taskPos EXCEPT ![k] = "top"]
            /\ running' = k
    /\ UNCHANGED <<is_active, is_paused, selected_ids, interval_seconds,
                   current_index, shuffled_order, attempted, rotation_task, taskCancel,
                   taskFailures, configFile, galleryItems, diskOk, rret>>

\* _wait_for_reconnection: a polling sleep has ended
PollWake(k) ==
    /\ LoopFree
    /\ ~taskCancel[k]
    /\ taskPos[k] = "poll_wait"
    /\ UNCHANGED nonRotVars
    /\ IF connected
       THEN /\ is_paused' = FALSE
            /\ taskPos' = [taskPos EXCEPT ![k] = "top"]
            /\ running' = k
       ELSE IF is_active /\ is_paused
            THEN UNCHANGED <<is_paused, taskPos, running>>
            ELSE /\ taskPos' = [taskPos EXCEPT ![k] = "top"]
                 /\ running' = k
                 /\ UNCHANGED is_paused
    /\ UNCHANGED <<is_active, selected_ids, interval_seconds, current_index,
                   shuffled_order, attempted, rotation_task, taskCancel, taskFailures,
                   configFile, galleryItems, diskOk, rret>>

\* LoopMissing that sleeps the interval after the removal
LoopMissing_Sleeps(k) ==
    /\ AtLoopTop(k)
    /\ is_active
    /\ connected
    /\ shuffled_order # <<>>
    /\ UNCHANGED nonRotVars
    /\ \E order \in OrdersAtRead, r \in {"True", "False", "OSError"} :
          LET current_id == order[IndexAtRead + 1]
          IN  /\ current_id \notin galleryItems
              /\ RemoveItemBody(current_id, order, IndexAtRead, r)
              /\ IF r = "OSError"
                 THEN /\ taskPos' = [taskPos EXCEPT ![k] = "error_sleep"]
                      /\ running' = NoTask
                 ELSE /\ taskPos' = [taskPos EXCEPT ![k] = "interval_sleep"]
                      /\ running' = NoTask
    /\ UNCHANGED <<interval_seconds, taskFailures, galleryItems,
                   diskOk, rret>>

\* the current id has no GIF in the gallery: remove_item(current_id), continue
LoopMissing(k) ==
    /\ AtLoopTop(k)
    /\ is_active
    /\ connected
    /\ shuffled_order # <<>>
    /\ UNCHANGED nonRotVars
    /\ \E order \in OrdersAtRead, r \in {"True", "False", "OSError"} :
          LET current_id == order[IndexAtRead + 1]
          IN  /\ current_id \notin galleryItems
              /\ RemoveItemBody(current_id, order, IndexAtRead, r)
              /\ IF r = "OSError"
                 THEN /\ taskPos' = [taskPos EXCEPT ![k] = "error_sleep"]
                      /\ running' = NoTask
                 ELSE /\ taskPos' = [taskPos EXCEPT ![k] = "top"]
                      /\ running' = k
    /\ UNCHANGED <<interval_seconds, taskFailures, galleryItems,
                   diskOk, rret>>

\* a loop that stays on the current item when its upload failed
LoopUpload_RetriesInPlace(k, outcome) ==
    /\ AtLoopTop(k)
    /\ is_active
    /\ connected
    /\ shuffled_order # <<>>
    /\ \E order \in OrdersAtRead :
          /\ order[IndexAtRead + 1] \in galleryItems
          /\ shuffled_order' = order
          /\ attempted' = Attempt(order[IndexAtRead + 1])
    /\ current_index' = IF outcome = "success" THEN IndexAtRead + 1
                        ELSE IndexAtRead
    /\ taskFailures' = [taskFailures EXCEPT ![k] =
                           consecutive_failures(@, outcome)]
    /\ IF outcome = "connection_lost"
       THEN /\ sessOpen' = CloseSession(session)
            /\ session' = NoSession
            /\ connected' = FALSE
       ELSE UNCHANGED <<sessOpen, session, connected>>
    /\ taskPos' = [taskPos EXCEPT ![k] = "interval_sleep"]
    /\ running' = NoTask
    /\ UNCHANGED <<ip, state_lock, lastIpFile, cpc, cip, csess, maxRetries,
                   attempt, posts, isConnErr, seen, cret, ftVars, upVars,
                   discVars, saveVars, speedVars, umVars>>
    /\ UNCHANGED <<is_active, is_paused, selected_ids, interval_seconds,
                   rotation_task, taskCancel, configFile,
                   galleryItems, diskOk, rret>>

\* the current id has a GIF: upload_gif, count failures, advance, sleep
LoopUpload(k, outcome) ==
    /\ AtLoopTop(k)
    /\ is_active
    /\ connected
    /\ shuffled_order # <<>>
    /\ \E order \in OrdersAtRead :
          /\ order[IndexAtRead + 1] \in galleryItems
          /\ shuffled_order' = order
          /\ attempted' = Attempt(order[IndexAtRead + 1])
    /\ current_index' = IndexAtRead + 1
    /\ taskFailures' = [taskFailures EXCEPT ![k] =
                           consecutive_failures(@, outcome)]
    /\ IF outcome = "connection_lost"
       THEN /\ sessOpen' = CloseSession(session)
            /\ session' = NoSession
            /\ connected' = FALSE
       ELSE UNCHANGED <<sessOpen, session, connected>>
    /\ taskPos' = [taskPos EXCEPT ![k] = "interval_sleep"]
    /\ running' = NoTask
    /\ UNCHANGED <<ip, state_lock, lastIpFile, cpc, cip, csess, maxRetries,
                   attempt, posts, isConnErr, seen, cret, ftVars, upVars,
                   discVars, saveVars, speedVars, umVars>>
    /\ UNCHANGED <<is_active, is_paused, selected_ids, interval_seconds,
                   rotation_task, taskCancel, configFile,
                   galleryItems, diskOk, rret>>

\* CancelledError is thrown into a cancelled task at the await it waits on
CancelDeliver(k) ==
    /\ LoopFree
    /\ taskCancel[k]
    /\ taskPos[k] = "cancelling"
    /\ UNCHANGED nonRotVars
    /\ taskPos' = [taskPos EXCEPT ![k] = "none"]
    /\ taskCancel' = [taskCancel EXCEPT ![k] = FALSE]
    /\ taskFailures' = [taskFailures EXCEPT ![k] = 0]
    /\ UNCHANGED <<is_active, is_paused, selected_ids, interval_seconds,
                   current_index, shuffled_order, attempted, rotation_task, running,
                   configFile, galleryItems, diskOk, rret>>

\* the process ends and is started again: everything in memory is lost, the
\* files stay
Restart ==
    /\ connected' = FALSE
    /\ ip' = NoIp
    /\ session' = NoSession
    /\ sessOpen' = {}
    /\ state_lock' = "none"
    /\ cpc' = [t \in Callers |-> "idle"]
    /\ cip' = [t \in Callers |-> NoIp]
    /\ csess' = [t \in Callers |-> NoSession]
    /\ maxRetries' = [t \in Callers |-> 0]
    /\ attempt' = [t \in Callers |-> 0]
    /\ posts' = [t \in Callers |-> 0]
    /\ isConnErr' = [t \in Callers |-> FALSE]
    /\ seen' = [t \in Callers |-> {}]
    /\ cret' = [t \in Callers |-> "none"]
    /\ refs' = <<>>
    /\ timestamps' = <<>>
    /\ clpc' = "idle"
    /\ clpath' = NoPath
    /\ is_active' = FALSE
    /\ is_paused' = FALSE
    /\ selected_ids' = <<>>
    /\ interval_seconds' = 120
    /\ current_index' = 0
    /\ shuffled_order' = <<>>
    /\ attempted' = <<>>
    /\ rotation_task' = NoTask
    /\ taskPos' = [k \in Tasks |-> "none"]
    /\ taskCancel' = [k \in Tasks |-> FALSE]
    /\ taskFailures' = [k \in Tasks |-> 0]
    /\ running' = NoTask
    /\ rret' = <<"none", "none">>
    /\ upc' = [t \in Callers |-> "idle"]
    /\ utotal' = [t \in Callers |-> 0]
    /\ uoffset' = [t \in Callers |-> 0]
    /\ ures' = [t \in Callers |-> NoResult]
    /\ ulog' = [t \in Callers |-> <<>>]
    /\ dpc' = [t \in Callers |-> "idle"]
    /\ dlast' = [t \in Callers |-> NoIp]
    /\ ddevices' = [t \in Callers |-> <<>>]
    /\ dcalls' = [t \in Callers |-> <<>>]
    /\ dret' = [t \in Callers |-> NoDevices]
    /\ wpc' = "idle"
    /\ wdata' = NoConfig
    /\ wret' = "none"
    /\ _entries' = <<>>
    /\ umret' = [op |-> "none", id |-> "none", data |-> NoData,
                 ok |-> FALSE, expired |-> FALSE]
    /\ durations' = <<>>
    /\ speedArg' = NoSpeed
    /\ speed' = NoSpeed
    /\ speed_ms' = NoSpeed
    /\ UNCHANGED <<lastIpFile, tempFile, now, onDisk, lastTouch, configFile,
                   galleryItems, diskOk, devLast>>

RotNext ==
    \/ \E ids \in IdLists, interval \in IntervalArgs : Start(ids, interval)
    \/ Stop
    \/ Resume
    \/ \E item_id \in ItemIds : AddItem(item_id)
    \/ \E item_id \in ItemIds : RemoveItem(item_id)
    \/ GetStatus
    \/ DeleteSavedConfig
    \/ \E item_id \in ItemIds : GalleryDelete(item_id)
    \/ \E k \in Tasks : LoopExit(k)
    \/ \E k \in Tasks : LoopDisconnected(k)
    \/ \E k \in Tasks : PollWake(k)
    \/ \E k \in Tasks : LoopMissing(k)
    \/ \E k \in Tasks, outcome \in UploadOutcomes : LoopUpload(k, outcome)
    \/ \E k \in Tasks : CancelDeliver(k)
    \/ Restart
    \/ ConnectBegin("loop", "ip1")
    \/ ConnectLock("loop")
    \/ ConnectOk("loop")
    \/ ConnectSave("loop")
    \/ DisconnectLock("loop")
    \/ Disconnect("loop")

Init ==
    /\ ConnInit /\ FTInit /\ RotInit /\ UpInit /\ DiscInit /\ SaveInit
    /\ SpeedInit /\ UMInit

SpecConn == Init /\ [][ConnNext]_vars

SpecFT == Init /\ [][FTNext]_vars

SpecRot == Init /\ [][RotNext]_vars

SpecUp == Init /\ [][UpNext]_vars

\* a step of the task k of _rotation_loop
TaskStep(k) ==
    \/ LoopExit(k)
    \/ LoopDisconnected(k)
    \/ PollWake(k)
    \/ LoopMissing(k)
    \/ \E outcome \in UploadOutcomes : LoopUpload(k, outcome)
    \/ CancelDeliver(k)

\* a step of connect or disconnect past its first one
ConnectionStep(t) ==
    \/ ConnectLock(t)
    \/ ConnectOk(t)
    \/ ConnectSave(t)
    \/ Disconnect(t)

\* the event loop runs the tasks whose sleep has ended or that were
\* cancelled between any two request handlers: a task that is ready again
\* and again is not passed over for ever; a synchronous connect or
\* disconnect of a handler runs to its end (its request has a timeout)
RotFairness ==
    /\ SF_vars(\E k \in Tasks : TaskStep(k))
    /\ WF_vars(ConnectionStep("loop"))

\* the loop, the device coming and going, and the requests that end or
\* replace a rotation
RotLiveNext ==
    \/ \E ids \in IdLists, interval \in IntervalArgs : Start(ids, interval)
    \/ Stop
    \/ \E item_id \in ItemIds : RemoveItem(item_id)
    \/ \E item_id \in ItemIds : GalleryDelete(item_id)
    \/ \E k \in Tasks : TaskStep(k)
    \/ Restart
    \/ ConnectBegin("loop", "ip1")
    \/ ConnectionStep("loop")
    \/ DisconnectLock("loop")

SpecRotLive == Init /\ [][RotLiveNext]_vars /\ RotFairness

\* the rotation manager with writes in USER_DATA_DIR that can fail
RotFaultNext ==
    \/ \E ids \in IdLists, interval \in IntervalArgs : Start(ids, interval)
    \/ Stop
    \/ \E k \in Tasks : LoopExit(k)
    \/ \E k \in Tasks : LoopDisconnected(k)
    \/ \E k \in Tasks : PollWake(k)
    \/ \E k \in Tasks, outcome \in UploadOutcomes : LoopUpload(k, outcome)
    \/ \E k \in Tasks : LoopMissing(k)
    \/ \E k \in Tasks : CancelDeliver(k)
    \/ \E item_id \in ItemIds : GalleryDelete(item_id)
    \/ ConnectBegin("loop", "ip1")
    \/ ConnectLock("loop")
    \/ ConnectOk("loop")
    \/ ConnectSave("loop")
    \/ DiskFault

SpecRotFault == Init /\ [][RotFaultNext]_vars

SpecDisc == Init /\ [][DiscNext]_vars

\* connect and _save_config with their writes step by step, a disk that
\* fails and a process that ends at any point
SaveNext ==
    \/ \E ids \in IdLists, interval \in SavedIntervals :
          SaveConfig(ids, interval)
    \/ AtomicWriteDump
    \/ AtomicWriteReplace
    \/ \E newIp \in IPs : ConnectBegin("loop", newIp)
    \/ ConnectLock("loop")
    \/ ConnectOk("loop")
    \/ ConnectRejected("loop")
    \/ SaveLastIpOpen("loop")
    \/ SaveLastIpWrite("loop")
    \/ DiskFault
    \/ Restart

SpecSave == Init /\ [][SaveNext]_vars

SpecUM == Init /\ [][UMNext]_vars

(***************************************************************************)
(* Properties of RotationManager                                           *)
(***************************************************************************)
\* the rotation loops that are live: neither finished nor cancelled
LiveLoops == {k \in Tasks : Unfinished(k) /\ ~taskCancel[k]}

\* C4: at most one rotation loop is live (not cancelled, not finished) at
\* any time, and it is the one the manager refers to; a loop uploads only
\* while it is that single live loop.
C4_AtMostOneLiveLoop ==
    /\ Cardinality(LiveLoops) <= 1
    /\ \A k \in LiveLoops : rotation_task = k
    /\ running # NoTask => LiveLoops \subseteq {running}

\* a start() was issued while a rotation was active: the loop it replaced is
\* cancelled and not yet finished, the new loop is live
C4_Witness ==
    /\ rret = <<"start", "True">>
    /\ is_active
    /\ \E j, k \in Tasks :
          /\ j # k
          /\ Unfinished(j) /\ taskCancel[j]
          /\ LiveLoops = {k}

\* the persisted ids that still exist in the gallery, in persisted order
PersistedValidIds ==
    SelectSeq(configFile.selected_ids, LAMBDA x : x \in galleryItems)

\* C8: resume() starts a rotation whose selected ids are exactly the
\* persisted ids that still exist in the gallery, in their persisted order,
\* with the persisted interval; when no config is persisted or none of its
\* ids still exists, resume() fails and no rotation becomes active.
C8_ResumeRoundTrip ==
    [][Resume =>
          IF configFile # NoConfig /\ PersistedValidIds # <<>>
          THEN /\ rret' = <<"resume", "True">>
               /\ is_active'
               /\ selected_ids' = PersistedValidIds
               /\ interval_seconds' = configFile.interval_seconds
               /\ rotation_task' \in LiveLoops'
          ELSE /\ rret' = <<"resume", "False">>
               /\ is_active' = is_active
               /\ LiveLoops' = LiveLoops]_vars

\* resume() succeeded on a config of which one id no longer exists
C8_Witness ==
    /\ rret = <<"resume", "True">>
    /\ is_active
    /\ galleryItems = {"b"}
    /\ selected_ids = <<"b">>
    /\ interval_seconds = 60

\* C26: in every reachable state the in-memory interval is one of 60, 120
\* and 300 seconds, and so is the interval of the rotation config on disk
\* whenever a config has been written.
C26_IntervalAlwaysValid ==
    /\ interval_seconds \in {60, 120, 300}
    /\ configFile # NoConfig => configFile.interval_seconds \in {60, 120, 300}
    /\ RotationStatus.interval_seconds \in {60, 120, 300}

\* a start() was refused while the rotation started with 60 seconds runs on
C26_Witness ==
    /\ rret = <<"start", "False">>
    /\ is_active
    /\ interval_seconds = 60
    /\ configFile # NoConfig
    /\ configFile.interval_seconds = 60

\* C30: on an active rotation with more than one selected id,
\* remove_item(x) of a selected x takes one off the index when x stands
\* before the pointer in the order and leaves the index as it is otherwise;
\* so when the pointer designates an item other than x it designates the
\* same item afterwards, and a pointer past the end of the order stays past
\* the end (the next iteration reshuffles, as it would have).
C30_RemovalKeepsNextItem ==
    [][\A x \in ItemIds :
          (RemoveItem(x) /\ is_active /\ Len(selected_ids) > 1
                         /\ InList(x, selected_ids))
             => LET before == /\ InList(x, shuffled_order)
                              /\ IndexOf(x, shuffled_order) < current_index
                    n == Len(shuffled_order)
                IN  /\ is_active'
                    /\ selected_ids' = ListRemove(x, selected_ids)
                    /\ current_index' = IF before THEN current_index - 1
                                        ELSE current_index
                    /\ (current_index < n
                          /\ shuffled_order[current_index + 1] # x)
                          => /\ current_index' < Len(shuffled_order')
                             /\ shuffled_order'[current_index' + 1] =
                                   shuffled_order[current_index + 1]
                    /\ (current_index < n
                          /\ shuffled_order[current_index + 1] = x)
                          => current_index' = current_index
                    /\ current_index >= n
                          => current_index' >= Len(shuffled_order')]_vars

\* the item shown last was removed during the interval sleep: the index
\* went from 1 to 0 and designates the item that was to come next
C30_Witness ==
    /\ rret = <<"remove_item", "True">>
    /\ is_active
    /\ rotation_task # NoTask
    /\ taskPos[rotation_task] = "interval_sleep"
    /\ Len(shuffled_order) = 1
    /\ shuffled_order = selected_ids
    /\ current_index = 0

\* C31: the iteration that finds no GIF for the current id hands nothing
\* to the device, takes that id out of the selection and of the order,
\* writes the config with the ids that remain, and goes back to the top of
\* the loop without a sleep and without leaving the event loop to a handler;
\* when the id was the last one the rotation becomes inactive, the config
\* is deleted and the loop's next step is its end.
C31_MissingItemRemovedWithoutSleep ==
    [][\A k \in Tasks :
          LoopMissing(k)
             => \E x \in ItemIds \ galleryItems :
                   /\ InList(x, selected_ids)
                   /\ selected_ids' = ListRemove(x, selected_ids)
                   /\ ~InList(x, selected_ids')
                   /\ ~InList(x, shuffled_order')
                   /\ Len(shuffled_order') = Len(selected_ids')
                   /\ upVars' = upVars
                   /\ connVars' = connVars
                   /\ taskPos'[k] = "top"
                   /\ running' = k
                   /\ ~LoopFree'
                   /\ taskFailures' = taskFailures
                   /\ IF selected_ids' = <<>>
                      THEN /\ ~is_active'
                           /\ configFile' = NoConfig
                           /\ ~RotationStatus'.has_saved_config
                      ELSE /\ is_active'
                           /\ configFile' = [version |-> 1,
                                             selected_ids |-> selected_ids',
                                             interval_seconds |->
                                                interval_seconds]]_vars

\* the loop removed its last id: the rotation that start() began is
\* inactive, without a config, and its task is back at the top of the loop
C31_Witness ==
    \E k \in Tasks :
        /\ rret = <<"start", "True">>
        /\ ~is_active
        /\ selected_ids = <<>>
        /\ configFile = NoConfig
        /\ running = k
        /\ taskPos[k] = "top"
        /\ connected

\* the calls that change the selection: start, resume, add_item,
\* remove_item and stop made by a handler, remove_item made by the loop
SelectionCall ==
    \/ /\ rret'[1] = "start"
       /\ \E ids \in IdLists, interval \in IntervalArgs : Start(ids, interval)
    \/ rret'[1] = "resume" /\ Resume
    \/ rret'[1] = "add_item" /\ \E item_id \in ItemIds : AddItem(item_id)
    \/ /\ rret'[1] = "remove_item"
       /\ \E item_id \in ItemIds : RemoveItem(item_id)
    \/ rret'[1] = "stop" /\ Stop

\* C32: after every start, add_item, remove_item or stop that returned
\* True, and after every removal made by the loop, the config on disk holds
\* the in-memory selection in its order with the in-memory interval when
\* the selection is not empty, and there is no config when the selection
\* has become empty; a config on disk never has an empty id list.
C32_ConfigMirrorsSelection ==
    /\ [][/\ (rret'[2] = "True" /\ SelectionCall)
                => IF selected_ids' # <<>>
                   THEN configFile' = [version |-> 1,
                                       selected_ids |-> selected_ids',
                                       interval_seconds |-> interval_seconds']
                   ELSE configFile' = NoConfig
          /\ (\E k \in Tasks : LoopMissing(k))
                => IF selected_ids' # <<>>
                   THEN configFile' = [version |-> 1,
                                       selected_ids |-> selected_ids',
                                       interval_seconds |-> interval_seconds']
                   ELSE configFile' = NoConfig]_vars
    /\ [](configFile # NoConfig => configFile.selected_ids # <<>>)

\* add_item has put b after a in the selection and in the config
C32_Witness ==
    /\ rret = <<"add_item", "True">>
    /\ is_active
    /\ selected_ids = <<"a", "b">>
    /\ configFile = [version |-> 1, selected_ids |-> <<"a", "b">>,
                     interval_seconds |-> 60]
    /\ current_index = 1

\* the number of times x stands in list
Occurrences(x, list) == Cardinality({i \in 1..Len(list) : list[i] = x})

C9_RemoveLastStops ==
    [][\A item_id \in ItemIds :
          (RemoveItem(item_id) /\ is_active /\ selected_ids = <<item_id>>)
             => /\ rret' = <<"remove_item", "True">>
                /\ ~is_active'
                /\ LiveLoops' = {}
                /\ configFile' = NoConfig
                /\ ~RotationStatus'.is_active
                /\ ~RotationStatus'.has_saved_config]_vars

\* both ids of a started rotation were removed
C9_Witness ==
    /\ rret = <<"remove_item", "True">>
    /\ ~is_active
    /\ selected_ids = <<>>
    /\ configFile = NoConfig
    /\ \E k \in Tasks : taskPos[k] = "cancelling"

\* C10: start(ids, interval) returns failure when interval is not one of
\* 60, 120, 300, when ids is empty, or when no id of ids is in the gallery,
\* and then changes nothing: the rotation state, its loop and the persisted
\* config are as before.
C10_RejectedStartChangesNothing ==
    [][(rret'[1] = "start" /\ running' = NoTask) =>
          \A ids \in IdLists, interval \in IntervalArgs :
             (/\ \/ interval \notin {60, 120, 300}
                 \/ ids = <<>>
                 \/ \A i \in 1..Len(ids) : ids[i] \notin galleryItems
              /\ Start(ids, interval))
                => /\ rret' = <<"start", "False">>
                   /\ UNCHANGED <<is_active, is_paused, selected_ids,
                                  interval_seconds, current_index,
                                  shuffled_order, rotation_task, taskPos,
                                  taskCancel, taskFailures, configFile>>]_vars

\* a start was rejected while a rotation was running
C10_Witness ==
    /\ rret = <<"start", "False">>
    /\ is_active
    /\ LiveLoops # {}
    /\ configFile # NoConfig

\* C17: an upload that fails leaves the rotation active and its task
\* suspended in the interval sleep with the index moved to the next item;
\* the failure counter of a task is always in 0 .. max_failures - 1 and the
\* failure that would make it max_failures sets it to 0; a task of
\* _rotation_loop finishes only after it was cancelled (by stop, by a
\* start over an active rotation, by the removal of the last item) or with
\* the process.
C17_FailuresNeverEndTheLoop ==
    [][\A k \in Tasks :
          /\ taskFailures'[k] \in 0..(max_failures - 1)
          /\ \A outcome \in {"error", "connection_lost"} :
                LoopUpload(k, outcome)
                   => /\ is_active'
                      /\ taskPos'[k] = "interval_sleep"
                      /\ rotation_task' = rotation_task
                      /\ current_index' = IndexAtRead + 1
                      /\ taskFailures'[k] =
                            IF taskFailures[k] = max_failures - 1
                            THEN 0 ELSE taskFailures[k] + 1
          /\ (Unfinished(k) /\ taskPos'[k] = "none")
                => taskCancel[k] \/ Restart]_vars

\* the loop sleeps after its second failure in a row, the rotation active
C17_Witness ==
    \E k \in Tasks :
        /\ taskFailures[k] = max_failures - 1
        /\ taskPos[k] = "interval_sleep"
        /\ rotation_task = k
        /\ is_active
        /\ current_index >= 1

\* where a task waits in asyncio.sleep(ROTATION_RECONNECT_CHECK_INTERVAL)
PollPositions == {"poll_wait", "poll_paused"}

\* C18: an iteration of the loop that finds the device disconnected uploads
\* nothing and leaves the index and the order alone; it leaves is_paused
\* true and the task in a polling sleep, not in the sleep of the configured
\* interval; a polling sleep of _wait_for_reconnection that ends with the
\* device still disconnected is followed by another one, one that ends with
\* the device connected clears is_paused and sends the task back to the
\* top of the loop with the index and the order it had; the loop uploads
\* only when it has seen the device connected.
C18_DisconnectedIterationPauses ==
    [][\A k \in Tasks :
          /\ LoopDisconnected(k)
                => /\ is_paused'
                   /\ taskPos'[k] \in PollPositions
                   /\ current_index' = current_index
                   /\ shuffled_order' = shuffled_order
                   /\ taskFailures' = taskFailures
                   /\ connState' = connState
          /\ PollWake(k)
                => /\ current_index' = current_index
                   /\ shuffled_order' = shuffled_order
                   /\ connState' = connState
                   /\ (~connected /\ is_active /\ is_paused)
                         => /\ taskPos'[k] = "poll_wait"
                            /\ is_paused'
                   /\ connected
                         => /\ ~is_paused'
                            /\ taskPos'[k] = "top"
          /\ (\E outcome \in UploadOutcomes : LoopUpload(k, outcome))
                => connected
          /\ (taskPos[k] \in PollPositions /\ taskPos'[k] = "interval_sleep")
                => FALSE]_vars

\* the loop polls, paused on its second item, the device disconnected
C18_Witness ==
    \E k \in Tasks :
        /\ taskPos[k] = "poll_wait"
        /\ rotation_task = k
        /\ is_active
        /\ is_paused
        /\ ~is_connected
        /\ current_index = 1
        /\ Len(shuffled_order) = 2

\* task k is the loop of the rotation, and no request has cancelled it
LoopOf(k) == rotation_task = k /\ Unfinished(k) /\ ~taskCancel[k]

\* C19: under fair scheduling of the loop task, whenever the rotation is
\* active and paused with the device connected, then eventually is_paused
\* is false and the loop is in the sleep that follows an upload attempt,
\* unless the device is disconnected again or the rotation is stopped
\* first (by stop, by a start that replaces its loop, by the removal of its
\* last item, by the end of the process).
C19_PausedRotationResumes ==
    \A k \in Tasks :
        (is_active /\ is_paused /\ is_connected /\ LoopOf(k))
            ~> (\/ ~is_connected
                \/ ~is_active
                \/ ~LoopOf(k)
                \/ ~is_paused /\ taskPos[k] = "interval_sleep")

\* the device is connected again while the rotation is still paused
C19_Witness ==
    \E k \in Tasks :
        /\ is_active
        /\ is_paused
        /\ is_connected
        /\ rotation_task = k
        /\ taskPos[k] = "poll_wait"
        /\ cpc["loop"] = "idle"

\* C20: a stop() that returns True leaves is_active and is_paused false, in
\* the fields and in what get_status reports, and no task as the loop of
\* the rotation; the task that was the loop is cancelled and taken out of
\* the sleep it waited in; a cancelled task takes no further step of the
\* loop, in particular no upload: its only step is the delivery of
\* CancelledError, which ends it.
C20_StopEndsTheLoop ==
    [][/\ (Stop /\ rret' = <<"stop", "True">>)
             => /\ is_active
                /\ ~is_active'
                /\ ~is_paused'
                /\ ~RotationStatus'.is_active
                /\ ~RotationStatus'.is_paused
                /\ rotation_task' \notin Tasks
                /\ LiveLoops' = {}
                /\ \A k \in Tasks :
                      (rotation_task = k /\ Unfinished(k))
                         => taskCancel'[k] /\ taskPos'[k] = "cancelling"
       /\ \A k \in Tasks :
             taskCancel[k]
                => /\ ~ \E outcome \in UploadOutcomes : LoopUpload(k, outcome)
                   /\ ~LoopDisconnected(k)
                   /\ ~LoopMissing(k)
                   /\ taskPos'[k] \in {taskPos[k], "none"}]_vars

\* stop() has returned True and the loop, taken out of its sleep, has not
\* yet run again
C20_Witness ==
    \E k \in Tasks :
        /\ rret = <<"stop", "True">>
        /\ ~is_active
        /\ ~is_paused
        /\ rotation_task = NoTask
        /\ taskCancel[k]
        /\ taskPos[k] = "cancelling"
        /\ is_connected
        /\ current_index >= 1

(***************************************************************************)
(* Properties of upload_gif                                                *)
(***************************************************************************)
\* thread t sends a frame that the device receives
FrameReceived(t) ==
    /\ upc[t] = "frames"
    /\ devLast' = t
    /\ \/ uoffset'[t] = uoffset[t] + 1
       \/ ures'[t][1] \in {"success", "UploadError"} /\ upc'[t] = "idle"

\* C11: with the device connected, upload_gif of a source with more than 40
\* frames raises TooManyFramesError without handing any command to
\* send_command (the device receives nothing), and a source with 40 frames
\* or fewer is accepted and goes on to the reset-buffer command.
C11_CeilingRejectsWithoutCommands ==
    [][\A t \in Callers, n \in FrameCounts :
          (is_connected /\ UploadBegin(t, n))
             => IF n > 40
                THEN /\ ures'[t] = <<"TooManyFramesError", 0>>
                     /\ upc'[t] = "idle"
                     /\ ulog'[t] = <<>>
                     /\ devLast' = devLast
                ELSE /\ upc'[t] = "reset"
                     /\ ures'[t][1] # "TooManyFramesError"]_vars

\* a 41-frame upload was refused with nothing sent, and a 40-frame upload
\* of the other thread went through
C11_Witness ==
    \E t, u \in Callers :
        /\ is_connected
        /\ ures[t] = <<"TooManyFramesError", 0>>
        /\ ulog[t] = <<>>
        /\ ures[u] = <<"success", 40>>

\* C12: upload_gif stops at the first answer of the device whose error_code
\* is not zero, be it the answer to the reset-buffer command or to a frame:
\* the call sends nothing more and raises UploadError.
C12_StopsAtFirstErrorCode ==
    [][\A t \in Callers :
          (is_connected /\ (\/ UploadReset(t, "rejected")
                            \/ UploadFrame(t, "rejected")))
             => /\ upc'[t] = "idle"
                /\ ures'[t] = <<"UploadError", 0>>]_vars

\* what a successful upload of n frames does, in order
ExpectedLog(n) ==
    [j \in 1..(2 * n + 1) |->
        IF j = 1 THEN <<"reset", 0, 0>>
        ELSE IF j % 2 = 0 THEN <<"progress", j \div 2, n>>
                           ELSE <<"frame", (j - 3) \div 2, n>>]

\* C13: a successful upload_gif of n frames has issued one reset-buffer
\* command and then the n frame commands with index 0..n-1 and total n, in
\* this order, has called the progress callback with (1,n)..(n,n) in order,
\* and returns frames_sent = n.
C13_SuccessfulUploadSequence ==
    \A t \in Callers :
        ures[t][1] = "success"
           => /\ ures[t][2] \in FrameCounts
              /\ ulog[t] = ExpectedLog(ures[t][2])
              /\ Len(SelectSeq(ulog[t], LAMBDA e : e[1] # "progress"))
                    = ures[t][2] + 1

\* a 2-frame upload has succeeded
C13_Witness ==
    \E t \in Callers :
        /\ ures[t] = <<"success", 2>>
        /\ Len(ulog[t]) = 5

\* C35: whenever the manager reports is_active outside an operation in
\* progress, exactly one rotation loop exists that is neither finished nor
\* cancelled, and it is the task the manager refers to; this is so after
\* every start(), also after one whose write of the config failed.
C35_ActiveHasRunningLoop ==
    (is_active /\ LoopFree) =>
        /\ Cardinality(LiveLoops) = 1
        /\ rotation_task \in LiveLoops

IdsOf(list) == {list[i] : i \in 1..Len(list)}

\* C36: in every state of an active rotation the order is not empty, holds
\* the ids of the selection and no others, and the index is between 0 and
\* the length of the order; the position the loop reads after its wrap
\* check is a position of the order it reads.
C36_OrderAndIndexInRange ==
    is_active =>
        /\ shuffled_order # <<>>
        /\ Len(shuffled_order) = Len(selected_ids)
        /\ IdsOf(shuffled_order) = IdsOf(selected_ids)
        /\ current_index \in 0..Len(shuffled_order)
        /\ \A order \in OrdersAtRead :
              IndexAtRead + 1 \in 1..Len(order)

\* a removal from an order of two left the index at the end of the order
C36_Witness ==
    /\ rret = <<"remove_item", "True">>
    /\ is_active
    /\ Len(shuffled_order) = 1
    /\ current_index = 1

C40_GetStatusIsPureRead ==
    [][GetStatus =>
          /\ configFile' = configFile
          /\ <<is_active, is_paused, selected_ids, interval_seconds,
                current_index, shuffled_order, rotation_task>>'
               = <<is_active, is_paused, selected_ids, interval_seconds,
                   current_index, shuffled_order, rotation_task>>]_vars

\* C5: the commands of one upload are never interleaved with those of
\* another: every frame the device receives follows directly a command of
\* the same upload (its reset-buffer command or its previous frame).
C5_UploadsNeverInterleave ==
    [][\A t \in Callers : FrameReceived(t) => devLast = t]_vars

\* C27: with `speed` not given, upload_gif uses and returns as speed_ms the
\* floor of the mean frame duration (the integer avg with
\* avg * n <= sum < (avg + 1) * n) raised to at least 50 ms; a given
\* `speed` is used and returned as it is, also below 50.
C27_DefaultSpeedFlooredAt50 ==
    speed_ms # NoSpeed =>
        LET n == Len(durations)
            total == sum(durations)
        IN  /\ speed_ms = speed
            /\ IF speedArg = NoSpeed
               THEN \E avg \in 0..100 :
                       /\ avg * n <= total
                       /\ total < (avg + 1) * n
                       /\ speed_ms = IF avg >= 50 THEN avg ELSE 50
               ELSE speed_ms = speedArg

\* no speed given, two frames of 49 and 50 ms: mean 49.5, floor 49, sent 50
C27_Witness ==
    /\ speedArg = NoSpeed
    /\ durations = <<49, 50>>
    /\ speed_ms = 50

(***************************************************************************)
(* Properties of UploadManager                                             *)
(***************************************************************************)

\* C28: get(key) on an entry older than the TTL returns None and has
\* removed the entry by then, its files handed to cleanup_files (which
\* unlinks those not in use): a get, exists or update that follows finds no
\* entry; get(key) on an entry not older than the TTL returns its data and
\* changes neither the store nor the files.
C28_ExpiredEntryRemovedByGet ==
    /\ [][\A u \in UploadIds :
             (UMGet(u) /\ u \in DOMAIN _entries)
                => IF now - _entries[u].created_at > upload_ttl
                   THEN /\ umret'.data = NoData
                        /\ ~umret'.ok
                        /\ u \notin DOMAIN _entries'
                        /\ \A v \in DOMAIN _entries \ {u} :
                              /\ v \in DOMAIN _entries'
                              /\ _entries'[v] = _entries[v]
                        /\ \A p \in paths_to_clean(u) :
                              ~is_in_use(p) => p \notin onDisk'
                        /\ onDisk' \subseteq onDisk
                        /\ onDisk \ onDisk' \subseteq paths_to_clean(u)
                   ELSE /\ umret'.data = _entries[u].data
                        /\ umret'.ok
                        /\ _entries' = _entries
                        /\ onDisk' = onDisk]_vars
    /\ [](\A u \in UploadIds :
             u \notin DOMAIN _entries
                => /\ ~ENABLED (UMGet(u) /\ umret'.ok)
                   /\ ~ENABLED (UMExists(u) /\ umret'.ok)
                   /\ \A q \in Paths : ~ENABLED (UMUpdate(u, q) /\ umret'.ok))

\* get found u1 expired: it is gone with its file p1, which was not in use;
\* the fresh u2 stays with its file p2
C28_Witness ==
    /\ umret.op = "get"
    /\ umret.id = "u1"
    /\ umret.expired
    /\ umret.data = NoData
    /\ DOMAIN _entries = {"u2"}
    /\ now - _entries["u2"].created_at <= upload_ttl
    /\ get("u2") = [path |-> "p2", converted_path |-> NoPath]
    /\ onDisk = {"p2"}
    /\ lastTouch["p1"] = NoTime

(***************************************************************************)
(* Properties of FileTracker and cleanup_files                             *)
(***************************************************************************)
\* C6: cleanup_files never deletes a path whose reference count is above
\* zero, whatever the interleaving of acquire, release and cleanup_files.
C6_NoUnlinkWhileInUse ==
    [][\A p \in Paths :
          (p \in onDisk /\ p \notin onDisk') => RefCount(p) = 0]_vars

\* C7: a path that was acquired and then released down to zero is reported
\* by get_stale_files(ttl) once more than ttl seconds have passed since its
\* last touch; a path whose count is above zero is never reported.
C7_StaleOnceReleasedAndExpired ==
    \A p \in Paths, ttl \in 0..MaxTime :
        /\ (lastTouch[p] # NoTime /\ RefCount(p) = 0
                                  /\ now - lastTouch[p] > ttl)
              => p \in get_stale_files(ttl)
        /\ RefCount(p) > 0 => p \notin get_stale_files(ttl)

(***************************************************************************)
(* Properties of discover                                                  *)
(***************************************************************************)
\* the call of thread t has invoked a mechanism in this step
Invoked(t, mechanism) ==
    /\ Len(dcalls'[t]) = Len(dcalls[t]) + 1
    /\ dcalls'[t][Len(dcalls'[t])][1] = mechanism

\* a handshake of the call of thread t has verified an address
Verified(calls) ==
    \E j \in 1..Len(calls) : calls[j][1] = "_check_pixoo_ip" /\ calls[j][3]

\* C15: a discover() that finds a persisted last IP probes it first; when
\* that IP answers the handshake the call returns the list of exactly that
\* IP, having invoked neither mDNS nor the network scan. The network scan
\* is invoked only in a call whose persisted IP, if any, did not verify and
\* whose mDNS step collected no address.
C15_LastIpShortCircuits ==
    [][\A t \in Callers :
          /\ (DiscoverBegin(t) /\ lastIpFile # NoIp)
                => /\ dpc'[t] = "check_last"
                   /\ dlast'[t] = lastIpFile
          /\ (dpc[t] = "check_last" /\ Invoked(t, "_check_pixoo_ip")
                                    /\ Verified(dcalls'[t]))
                => /\ dpc'[t] = "idle"
                   /\ dret'[t] = <<dlast[t]>>
                   /\ dcalls'[t] = <<HandshakeCall(dlast[t], TRUE)>>
          /\ Invoked(t, "mdns") => ~Verified(dcalls[t])
          /\ Invoked(t, "_scan_network")
                => /\ ~Verified(dcalls[t])
                   /\ Len(dcalls[t]) > 0
                   /\ dcalls[t][Len(dcalls[t])] = MdnsCall(<<>>)]_vars

\* one call has returned the persisted ip1 after its handshake alone, and
\* another call has reached the scan after ip2 did not verify and mDNS
\* collected nothing
C15_Witness ==
    \E t, u \in Callers :
        /\ dpc[t] = "idle"
        /\ dret[t] = <<"ip1">>
        /\ dcalls[t] = <<HandshakeCall("ip1", TRUE)>>
        /\ dpc[u] = "idle"
        /\ Len(dcalls[u]) = 3
        /\ dcalls[u][1] = HandshakeCall("ip2", FALSE)
        /\ dcalls[u][2] = MdnsCall(<<>>)
        /\ dcalls[u][3][1] = "_scan_network"
        /\ dret[u] = dcalls[u][3][2]

\* C25: the reference count of a path is never negative and no count of
\* zero or less is kept in _refs; acquire adds one to the count of its path
\* and release takes one off unless the count is zero already (a path never
\* acquired, or released to zero), neither touching another path, so the
\* count is the number of acquires less the releases that found a count
\* above zero; is_in_use(path) is true exactly when that count is above
\* zero, and release(path) returns True exactly when the count is zero
\* after the call.
C25_RefCountNeverNegative ==
    [][\A p \in Paths :
          /\ RefCount(p)' >= 0
          /\ p \in DOMAIN refs' => refs'[p] >= 1
          /\ is_in_use(p)' = (p \in DOMAIN refs' /\ refs'[p] >= 1)
          /\ Acquire(p)
                => /\ RefCount(p)' = RefCount(p) + 1
                   /\ \A q \in Paths \ {p} : RefCount(q)' = RefCount(q)
          /\ Release(p)
                => /\ RefCount(p)' =
                         IF RefCount(p) > 0 THEN RefCount(p) - 1 ELSE 0
                   /\ \A q \in Paths \ {p} : RefCount(q)' = RefCount(q)
                   /\ ReleaseResult(p) = (RefCount(p)' = 0)]_vars

\* one path acquired twice and released once, the other acquired and
\* released to zero
C25_Witness ==
    \E p, q \in Paths :
        /\ p # q
        /\ RefCount(p) = 1
        /\ is_in_use(p)
        /\ lastTouch[p] # NoTime
        /\ q \notin DOMAIN refs
        /\ ~is_in_use(q)
        /\ lastTouch[q] # NoTime

(***************************************************************************)
(* Properties of PixooConnection                                           *)
(***************************************************************************)
\* caller t takes a step inside send_command (after the guarded copy)
SendStep(t) ==
    /\ cpc[t] \in {"send_post", "send_backoff", "send_final", "send_teardown"}
    /\ cpc'[t] # cpc[t]

\* C1: when every request attempt of a send_command times out, the call
\* raises PixooConnectionError after exactly max_retries requests, and no
\* step of the call changes the connection state (connected, ip, session).
C1_TimeoutsRetryAndKeepState ==
    [][\A t \in Callers :
          /\ posts'[t] <= maxRetries'[t]
          /\ (SendStep(t) /\ seen[t] \subseteq {"timeout"}
                          /\ seen'[t] \subseteq {"timeout"})
                => /\ connected' = connected
                   /\ ip' = ip
                   /\ session' = session
                   /\ sessOpen' = sessOpen
          /\ (cpc[t] = "send_final" /\ cpc'[t] = "idle"
                                    /\ seen[t] \subseteq {"timeout"})
                => /\ posts[t] = maxRetries[t]
                   /\ cret'[t] = "PixooConnectionError"]_vars

\* all three attempts of a default send_command timed out, still connected
C1_Witness ==
    \E t \in Callers :
        /\ cpc[t] = "send_final"
        /\ seen[t] = {"timeout"}
        /\ maxRetries[t] = 3
        /\ posts[t] = 3
        /\ is_connected

\* C2: when every attempt of a send_command fails with a connection-refused
\* class error, the call ends by raising PixooConnectionError with the
\* connection down and its session closed; no step of a send_command before
\* that last one (taken after max_retries requests) changes the state.
C2_RefusedTearsDownAtTheEnd ==
    [][\A t \in Callers :
          /\ (SendStep(t) /\ cpc[t] # "send_teardown")
                => /\ connected' = connected
                   /\ session' = session
                   /\ sessOpen' = sessOpen
          /\ (cpc[t] \in {"send_final", "send_teardown"} /\ cpc'[t] = "idle")
                => posts[t] = maxRetries[t]
          /\ (cpc[t] = "send_final" /\ seen[t] = {"refused"})
                => cpc'[t] \in {"send_final", "send_teardown"}
          /\ (cpc[t] = "send_teardown" /\ cpc'[t] = "idle"
                                       /\ seen[t] = {"refused"})
                => /\ ~is_connected'
                   /\ session' = NoSession
                   /\ csess[t] \notin sessOpen'
                   /\ cret'[t] = "PixooConnectionError"]_vars

\* three refused attempts, the connection still up just before the teardown
C2_Witness ==
    \E t \in Callers :
        /\ cpc[t] = "send_teardown"
        /\ seen[t] = {"refused"}
        /\ posts[t] = 3
        /\ is_connected
        /\ session = csess[t]

\* C29: a send_command whose attempts have all failed tears the connection
\* down when every one of its attempts failed with a connection-refused
\* class error, and never when at least one attempt, in any position, was a
\* timeout: then the call raises with the connection as it was.
C29_TeardownOnlyWhenAllRefused ==
    [][\A t \in Callers :
          /\ (cpc[t] = "send_final" /\ cpc'[t] # "send_final"
                                    /\ seen[t] = {"refused"})
                => cpc'[t] = "send_teardown"
          /\ (cpc[t] = "send_final" /\ cpc'[t] # "send_final"
                                    /\ "timeout" \in seen[t])
                => /\ cpc'[t] = "idle"
                   /\ connected' = connected
                   /\ session' = session
                   /\ sessOpen' = sessOpen
          /\ (cpc[t] = "send_teardown" /\ cpc'[t] = "idle")
                => "timeout" \notin seen[t]]_vars

\* C34: the teardown at the end of a send_command touches only the
\* connection the call was issued on: when the stored session is no longer
\* the one the call copied (the connection was replaced meanwhile), the
\* step leaves the connection up and its session open.
C34_TeardownOnlyOwnConnection ==
    [][\A t \in Callers :
          (cpc[t] = "send_teardown" /\ cpc'[t] = "idle"
                                    /\ session # csess[t])
             => /\ connected' = connected
                /\ session' = session
                /\ sessOpen' = sessOpen]_vars

\* C38: in every state, under any interleaving of connect, disconnect and
\* send_command, a connected PixooConnection has a stored ip and a stored
\* session, and current_ip and get_status()["ip"] are an address exactly
\* when it is connected.
C38_ConnectedHasIpAndSession ==
    /\ connected => (ip # NoIp /\ session # NoSession)
    /\ (current_ip # NoIp) <=> connected
    /\ (get_status.ip # NoIp) <=> connected
    /\ get_status.connected <=> is_connected

\* a send_command tore the connection down while another thread is inside
\* connect: the address is still stored and is not reported
C38_Witness ==
    /\ ~connected
    /\ ip # NoIp
    /\ session = NoSession
    /\ current_ip = NoIp
    /\ \E t, u \in Callers :
          /\ t # u
          /\ cpc[t] = "idle" /\ cret[t] = "PixooConnectionError"
          /\ cpc[u] = "connect_locked"

\* C39: once no call is in flight on the connection, the persisted
\* last-known ip is the ip of the connection that is established, also
\* after two connect() calls to different addresses ran concurrently.
C39_LastIpIsCurrentIp ==
    (connected /\ \A t \in Callers : cpc[t] = "idle") =>
        lastIpFile = current_ip

\* C3: the step of connect(ip) that accepts the handshake leaves
\* is_connected true, current_ip = ip and get_status = {connected: true,
\* ip: ip}, and its remaining step up to `return True` changes none of
\* them; disconnect(), from any state, leaves is_connected false,
\* current_ip None and get_status = {connected: false, ip: None}.
C3_ConnectDisconnectStatus ==
    [][\A t \in Callers :
          /\ (cpc[t] = "connect_locked" /\ cpc'[t] = "connect_save")
                => /\ is_connected'
                   /\ current_ip' = cip[t]
                   /\ get_status' = [connected |-> TRUE, ip |-> cip[t]]
          /\ (cpc[t] = "connect_save" /\ cpc'[t] = "idle")
                => /\ cret'[t] = "True"
                   /\ get_status' = get_status
          /\ Disconnect(t)
                => /\ ~is_connected'
                   /\ current_ip' = NoIp
                   /\ get_status' = [connected |-> FALSE, ip |-> NoIp]]_vars

\* connect("ip2") has returned True while a connection to ip1 had existed
C3_Witness ==
    /\ cret["loop"] = "True"
    /\ cpc["loop"] = "idle"
    /\ get_status = [connected |-> TRUE, ip |-> "ip2"]
    /\ session = 2

\* C24: a connect(ip) whose handshake fails (timeout, refusal, another
\* exception, a status other than 200, an error_code other than 0) raises
\* PixooConnectionError and leaves the connected flag, the stored ip, the
\* stored session (still open if it was) and the persisted last IP as they
\* were, also when a connection to another ip is established.
C24_FailedConnectChangesNothing ==
    [][\A t \in Callers :
          (cpc[t] = "connect_post" /\ cpc'[t] = "idle")
             => /\ cret'[t] = "PixooConnectionError"
                /\ connected' = connected
                /\ ip' = ip
                /\ session' = session
                /\ (session \in sessOpen) = (session \in sessOpen')
                /\ csess[t] \notin sessOpen'
                /\ lastIpFile' = lastIpFile
                /\ get_status' = get_status]_vars

\* connected to ip1, with ip1 persisted and its session open, right after
\* a call of the other thread has raised
C24_Witness ==
    /\ cret["worker"] = "PixooConnectionError"
    /\ cpc["worker"] = "idle"
    /\ cret["loop"] = "True"
    /\ is_connected
    /\ current_ip = "ip1"
    /\ lastIpFile = "ip1"
    /\ session \in sessOpen
    /\ Cardinality(sessOpen) = 1

\* C14: when a request of send_command is answered with a non-success
\* response (a status other than 200, or status 200 with an error_code other
\* than 0), the call raises PixooConnectionError and the connection state
\* (connected, ip, session) is left as it was.
C14_NonSuccessResponseRaises ==
    [][\A t \in Callers, status200 \in BOOLEAN, errorCode \in {0, 1} :
          (/\ ~status200 \/ errorCode # 0
           /\ SendAnswered(t, status200, errorCode))
             => /\ cret'[t] = "PixooConnectionError"
                /\ connected' = connected
                /\ ip' = ip
                /\ session' = session]_vars

\* where a thread is while a network request of connect or send_command is
\* in progress: the handshake, a request attempt, the backoff sleep
NetworkPositions == {"connect_post", "send_post", "send_backoff"}

\* where a thread is inside a `with self._state_lock` block
LockedPositions == {"read_locked", "connect_locked", "disconnect_locked",
                    "send_locked", "send_teardown"}

\* C16: the state lock is held by a thread only while it is inside one of
\* the blocks that read or write the guarded fields, never while its
\* handshake, request attempt or backoff sleep is in progress; so whenever a
\* send_command of one thread is pending, a read of is_connected /
\* current_ip / get_status by the other thread can enter the lock, and a
\* read that has entered it can complete.
C16_LockNeverHeldAcrossNetwork ==
    \A t \in Callers :
        /\ cpc[t] \in NetworkPositions => state_lock # t
        /\ state_lock = t <=> cpc[t] \in LockedPositions
        /\ \A u \in Callers \ {t} :
              cpc[u] \in {"send_post", "send_backoff"}
                 => /\ ThreadFree(t) => ENABLED ReadLock(t)
                    /\ cpc[t] = "read_locked" => ENABLED ReadStatus(t)

\* a read has entered the lock while the send_command of the other thread
\* waits for the answer to its request
C16_Witness ==
    /\ cpc["loop"] = "read_locked"
    /\ state_lock = "loop"
    /\ cpc["worker"] = "send_post"
    /\ is_connected

(***************************************************************************)
(* Properties of the persisted files                                       *)
(***************************************************************************)
\* C21: at every step of a save, and when the process ends at any of them,
\* ROTATION_CONFIG_FILE holds a complete document: the one it held before,
\* or, from the os.replace step on, the complete new one; it is never a
\* file cut short.
C21_ConfigWrittenAtomically ==
    [][/\ configFile' # TornConfig
       /\ configFile' # configFile
             => /\ AtomicWriteReplace
                /\ configFile' = wdata
                /\ wdata.version = 1
                /\ wdata.selected_ids # <<>>
       /\ Restart => configFile' = configFile]_vars

\* the process has ended in the middle of a save that was to replace a
\* complete document: the temp file is left cut short, the document intact
C21_Witness ==
    /\ wpc = "idle"
    /\ wret = "none"
    /\ tempFile = TornConfig
    /\ configFile.version = 1
    /\ configFile.selected_ids = <<"a", "b">>

\* C22: when the process ends at any step of the write of the last-IP
\* record by connect(), LAST_CONNECTION_FILE afterwards holds the complete
\* previous value or the complete new one, never a document cut short.
C22_LastIpWrittenAtomically ==
    [][Restart => lastIpFile' \in IPs \cup {NoIp}]_vars

\* C23: a write of persisted state that fails is not reported as success:
\* connect() returns True only with the last-IP record holding its ip, and
\* _save_config returns normally only with the document in the file.
C23_PersistenceFailuresPropagate ==
    [][/\ \A t \in Callers :
             ((SaveLastIpOpen(t) \/ SaveLastIpWrite(t)) /\ cret'[t] = "True")
                => lastIpFile' = cip[t]
       /\ ((AtomicWriteDump \/ AtomicWriteReplace) /\ wret' = "None")
             => configFile' = wdata
       /\ (\E ids \in IdLists, interval \in SavedIntervals :
              SaveConfig(ids, interval) /\ ids # <<>> /\ ~diskOk)
             => wret' = "OSError"]_vars

====
